---------------------------- MODULE Spec2Model ----------------------------
(***************************************************************************)
(* A model of gdsfactory's path module (src/gdsfactory/path.py): the Path  *)
(* object with its constructor, append and hash_geometry, and the          *)
(* extrusion engine (extrude, extrude_transition).                         *)
(*                                                                         *)
(* Numbers.  Coordinates are integers (micrometres) and angles are integer *)
(* degrees.  Every path the model builds is rectilinear (segments parallel *)
(* to an axis), so rotations are by multiples of 90 degrees and arctan2,   *)
(* the rotation and the centre-point offset are exact on the lattice.      *)
(* Rounding to three decimals (np.round(points, 3)) is the identity on     *)
(* such coordinates.  Section widths are even so that width / 2 is exact.  *)
(***************************************************************************)
EXTENDS Integers, Sequences, FiniteSets, TLC

VARIABLES
    A,       \* the Path object under construction: points, start_angle, end_angle
    route,   \* how A was built: constructor used and the kinds of argument appended
    last,    \* the last Path operation: the Path before it, its argument, its outcome
    p,       \* the Path object handed to extrude / extrude_transition
    call,    \* the arguments of the last extrusion call (with p as it was before)
    res,     \* the outcome of the last extrusion call
    invoked, \* the last call of a path or component function: arguments and outcome
    objs     \* Path objects held by name, the arrays and dicts they refer to, the last method call

vars == <<A, route, last, p, call, res, invoked, objs>>

(***************************************************************************)
(* Bounds of the model.                                                    *)
(***************************************************************************)
MaxPts == 6        \* append is not called once A holds this many points
MaxAppends == 3    \* nor once A has been appended to this many times
MaxSections == 2   \* cross-sections hold at most this many sections
MaxSpacing == 6    \* along_path is called with a spacing of 1 to this
MaxPadding == 11   \* and with a padding of 0 to this
MaxSteps == 3      \* smooth is given at most this many segments between waypoints
MaxRadius == 2     \* and a radius of 1 to this
MaxLength == 12    \* straight is called with a length of minus this to this
MaxNpoints == 4    \* and asked for 0 to this many points
MaxOps == 2        \* at most this many methods are called on the named Path objects
MaxMoves == 3      \* a Path is moved, rotated and mirrored at most this many times

None == "None"

(***************************************************************************)
(* Plane geometry on the integer lattice.                                  *)
(***************************************************************************)
Pt(x, y) == <<x, y>>
VAdd(a, b) == <<a[1] + b[1], a[2] + b[2]>>
VSub(a, b) == <<a[1] - b[1], a[2] - b[2]>>
VScale(k, a) == <<k * a[1], k * a[2]>>
Last(s) == s[Len(s)]
SeqRange(s) == {s[i] : i \in 1..Len(s)}

\* np.arctan2(dy, dx) / pi * 180 for the directions a rectilinear path takes;
\* arctan2(0, 0) is 0.  The result lies in (-180, 180].
Atan2Deg(dy, dx) ==
    CASE dy = 0 /\ dx >= 0 -> 0
      [] dy = 0 /\ dx < 0 -> 180
      [] dx = 0 /\ dy > 0 -> 90
      [] dx = 0 /\ dy < 0 -> -90

\* _rotate_points(points, angle) about the origin, for multiples of 90 degrees.
RotatePt(q, angle) ==
    CASE angle % 360 = 0 -> q
      [] angle % 360 = 90 -> <<-q[2], q[1]>>
      [] angle % 360 = 180 -> <<-q[1], -q[2]>>
      [] angle % 360 = 270 -> <<q[2], -q[1]>>

RotatePoints(points, angle) == [i \in 1..Len(points) |-> RotatePt(points[i], angle)]

\* (sin a, -cos a): the unit normal to the right of heading a.
RightNormal(angle) ==
    CASE angle % 360 = 0 -> <<0, -1>>
      [] angle % 360 = 90 -> <<1, 0>>
      [] angle % 360 = 180 -> <<0, 1>>
      [] angle % 360 = 270 -> <<-1, 0>>

\* Heading of the segment from a to b, in degrees.
Heading(a, b) == Atan2Deg(b[2] - a[2], b[1] - a[1])

(***************************************************************************)
(* Path objects and the arguments Path() and append() take.                *)
(***************************************************************************)
PathRec(points, sa, ea) == [points |-> points, start_angle |-> sa, end_angle |-> ea]

\* Path(): one point at the origin, both angles 0.
EmptyPath == PathRec(<<Pt(0, 0)>>, 0, 0)

ArgNone == [tag |-> "none", points |-> <<>>, start_angle |-> 0, end_angle |-> 0, items |-> <<>>]
ArgArray(points) ==
    [tag |-> "array", points |-> points, start_angle |-> 0, end_angle |-> 0, items |-> <<>>]
ArgPath(P) ==
    [tag |-> "path", points |-> P.points, start_angle |-> P.start_angle,
     end_angle |-> P.end_angle, items |-> <<>>]
ArgList(items) ==
    [tag |-> "list", points |-> <<>>, start_angle |-> 0, end_angle |-> 0, items |-> items]
\* Anything that is neither a Path, an N x 2 numeric array nor a list (an N x 3 array).
ArgBad == [tag |-> "bad", points |-> <<>>, start_angle |-> 0, end_angle |-> 0, items |-> <<>>]

Outcome(status, P) == [status |-> status, path |-> P]

\* Path.append, line 155: rotate the new points onto self's end heading.
AppendRotate(points, self_end, start_angle) == RotatePoints(points, self_end - start_angle)

\* Path.append, line 156: points += self.points[-1] - points[0].
AppendTranslate(points, self_last) ==
    [i \in 1..Len(points) |-> VAdd(points[i], VSub(self_last, points[1]))]

\* A faulty end angle, which forgets the argument's start angle.
AppendEndAngleNoStart(end_angle, self_end, start_angle) == (end_angle + self_end) % 360

\* Path.append, line 159.
AppendEndAngle(end_angle, self_end, start_angle) ==
    (end_angle + self_end - start_angle) % 360

\* A faulty concatenation, which keeps the shared first point.
AppendConcatKeepFirst(self_points, points) == self_points \o points

\* Path.append, line 162: np.vstack([self.points, points[1:]]).
AppendConcat(self_points, points) == self_points \o Tail(points)

\* Path.append, lines 154-164, once start_angle, end_angle and points are loaded.
AppendCore(self, points, start_angle, end_angle) ==
    LET rotated == AppendRotate(points, self.end_angle, start_angle)
        moved == AppendTranslate(rotated, Last(self.points))
    IN  PathRec(AppendConcat(self.points, moved),
                self.start_angle,
                AppendEndAngle(end_angle, self.end_angle, start_angle))

RECURSIVE PathAppend(_, _)
RECURSIVE AppendEach(_, _, _)

\* Path.append, lines 143-147: for p in path: self.append(p).  An element that
\* raises ends the loop; self keeps what the earlier elements appended.
AppendEach(self, items, i) ==
    IF i > Len(items) THEN Outcome("ok", self)
    ELSE LET r == PathAppend(self, items[i])
         IN  IF r.status # "ok" THEN r ELSE AppendEach(r.path, items, i + 1)

\* Path.append, lines 118-164.
PathAppend(self, arg) ==
    IF arg.tag = "path"
    THEN Outcome("ok", AppendCore(self, arg.points, arg.start_angle, arg.end_angle))
    ELSE IF arg.tag = "array"
    THEN IF Len(arg.points) < 2
         THEN Outcome("IndexError", self)      \* points[1] of a 1 x 2 array
         ELSE Outcome("ok",
                  AppendCore(self, arg.points,
                             Heading(arg.points[1], arg.points[2]),
                             Heading(arg.points[Len(arg.points) - 1], Last(arg.points))))
    ELSE IF arg.tag = "list"
    THEN AppendEach(self, arg.items, 1)
    ELSE Outcome("ValueError", self)

\* Path.__init__, lines 57-86.
PathInit(arg) ==
    IF arg.tag = "none" THEN Outcome("ok", EmptyPath)
    ELSE IF arg.tag = "array"
    THEN IF Len(arg.points) < 2
         THEN Outcome("IndexError", EmptyPath)
         ELSE Outcome("ok",
                  PathRec(arg.points,
                          Heading(arg.points[1], arg.points[2]),
                          Heading(arg.points[Len(arg.points) - 1], Last(arg.points))))
    ELSE IF arg.tag = "path"
    THEN Outcome("ok", PathRec(arg.points, arg.start_angle, arg.end_angle))
    ELSE IF arg.tag = "list" /\ Len(arg.items) > 1
    THEN PathAppend(EmptyPath, arg)
    ELSE Outcome("ValueError", EmptyPath)

\* Path.hash_geometry, lines 349-397, at the default precision 1e-4: the points
\* are quantised to round(x / 1e-4 + 0.17048614) and the two angles to
\* round(a / 1e-4); SHA1 of the integers is taken to be injective, so the hash
\* is modelled by the integers it digests.
HashScale == 10000
hash_geometry(P) ==
    <<[i \in 1..Len(P.points) |-> VScale(HashScale, P.points[i])],
      <<HashScale * P.start_angle, HashScale * P.end_angle>>>>

(***************************************************************************)
(* Arguments the model hands to Path() and append().                       *)
(***************************************************************************)
\* A Path as arc(radius=1, angle=90) builds it, kept by its two end points
\* (0,0) and (1,1): the angles are set analytically to 0 and 90 (lines
\* 1302-1313), not to the chord's heading.
ArcPath == PathRec(<<Pt(0, 0), Pt(1, 1)>>, 0, 90)

PointArrays ==
    { <<Pt(0, 0), Pt(2, 0)>>,
      <<Pt(1, 1), Pt(1, 3)>>,
      <<Pt(0, 0), Pt(1, 0), Pt(1, -1)>>,
      <<Pt(0, 0), Pt(-1, 0), Pt(-1, 1)>>,
      <<Pt(2, 0)>>,
      <<Pt(0, 0), Pt(1, 0), Pt(1, 0)>> }

PathObjects ==
    { EmptyPath,
      ArcPath,
      PathRec(<<Pt(1, 1), Pt(1, 3)>>, 90, 90),
      PathRec(<<Pt(0, 0), Pt(1, 0), Pt(1, -1)>>, 0, -90) }

SimpleArgs == {ArgArray(a) : a \in PointArrays} \cup {ArgPath(P) : P \in PathObjects}

ListArgs ==
    { ArgList(<<ArgArray(<<Pt(0, 0), Pt(2, 0)>>), ArgArray(<<Pt(0, 0), Pt(1, 0), Pt(1, -1)>>)>>),
      ArgList(<<ArgArray(<<Pt(1, 1), Pt(1, 3)>>), ArgBad>>),
      ArgList(<<ArgPath(ArcPath), ArgArray(<<Pt(0, 0), Pt(2, 0)>>)>>) }

AppendArgs == SimpleArgs \cup ListArgs \cup {ArgBad}
InitArgs == AppendArgs \cup {ArgNone}

\* Whether an argument's own angles are the headings of its first and last
\* segment (an array's are by construction, unless that segment has no length).
RECURSIVE AnglesMatch(_)
AnglesMatch(arg) ==
    CASE arg.tag = "list" -> \A i \in 1..Len(arg.items) : AnglesMatch(arg.items[i])
      [] arg.tag \in {"array", "path"} /\ Len(arg.points) >= 2 ->
            LET n == Len(arg.points)
                a == arg.points[1]
                b == arg.points[2]
                c == arg.points[n - 1]
                d == arg.points[n]
            IN  /\ a # b
                /\ c # d
                /\ \/ arg.tag = "array"
                   \/ /\ a[1] = b[1] \/ a[2] = b[2]
                      /\ c[1] = d[1] \/ c[2] = d[2]
                      /\ arg.start_angle % 360 = Heading(a, b) % 360
                      /\ arg.end_angle % 360 = Heading(c, d) % 360
      [] arg.tag = "path" /\ Len(arg.points) < 2 -> arg.start_angle = arg.end_angle
      [] OTHER -> TRUE

RECURSIVE OnlyArrays(_)
OnlyArrays(arg) ==
    CASE arg.tag = "list" -> \A i \in 1..Len(arg.items) : OnlyArrays(arg.items[i])
      [] OTHER -> arg.tag = "array"

NoOp == [op |-> "none", pre |-> EmptyPath, arg |-> ArgNone, status |-> "ok"]

(***************************************************************************)
(* Path operations.                                                        *)
(***************************************************************************)
\* P = Path(arg).  A constructor that raises leaves the caller without a new
\* object: A stays the Path it was.
Construct(arg) ==
    LET r == PathInit(arg)
    IN  /\ A' = IF r.status = "ok" THEN r.path ELSE A
        /\ route' = IF r.status = "ok"
                    THEN [ctor |-> arg.tag,
                          appends |-> IF arg.tag = "list" THEN Len(arg.items) ELSE 0,
                          arrays |-> arg.tag = "list" => OnlyArrays(arg),
                          match |-> AnglesMatch(arg)]
                    ELSE route
        /\ last' = [op |-> "init", pre |-> EmptyPath, arg |-> arg, status |-> r.status]
        /\ UNCHANGED <<p, call, res, invoked, objs>>

\* A.append(arg): A is updated in place, also by a call that raises part-way.
AppendOp(arg) ==
    LET r == PathAppend(A, arg)
    IN  /\ Len(A.points) < MaxPts
        /\ route.appends < MaxAppends
        /\ A' = r.path
        /\ route' = [route EXCEPT !.appends = @ + 1,
                                  !.arrays = @ /\ OnlyArrays(arg),
                                  !.match = @ /\ AnglesMatch(arg)]
        /\ last' = [op |-> "append", pre |-> A, arg |-> arg, status |-> r.status]
        /\ UNCHANGED <<p, call, res, invoked, objs>>

(***************************************************************************)
(* Cross-sections.  A layer spec is a tuple: <<layer, datatype>>, or <<n>>  *)
(* for the plain integer n.                                                *)
(***************************************************************************)
\* pdk.get_layer: a (layer, datatype) pair is returned as it is, an integer n
\* gives (n, 0).
get_layer(layer) == IF Len(layer) = 1 THEN <<layer[1], 0>> ELSE layer

\* A Section.  offset_function is None or d, standing for the callable
\* lambda t: d; width_function is None or <<w0, w1>>, standing for a callable
\* with w(0) = w0 and w(1) = w1.
Section(name, width, offset, layer, port_names, port_types) ==
    [name |-> name, width |-> width, offset |-> offset, layer |-> layer,
     port_names |-> port_names, port_types |-> port_types, hidden |-> FALSE,
     insets |-> <<>>, offset_function |-> <<>>, width_function |-> <<>>,
     simplify |-> <<>>]

\* A field that is None is the empty tuple; a value v is held as <<v>>.
Some(v) == <<v>>
IsNone(f) == f = <<>>
Val(f) == f[1]

\* One entry of CrossSection.components_along_path.
Via(offset, spacing, padding) == [offset |-> offset, spacing |-> spacing, padding |-> padding]

\* A CrossSection, or a Transition between the sections of two CrossSections.
CrossSection(sections, vias) ==
    [kind |-> "CrossSection", sections |-> sections, components_along_path |-> vias,
     sections1 |-> <<>>, sections2 |-> <<>>, width_type |-> None]
Transition(sections1, sections2, width_type) ==
    [kind |-> "Transition", sections |-> <<>>, components_along_path |-> <<>>,
     sections1 |-> sections1, sections2 |-> sections2, width_type |-> width_type]
NoCrossSection ==
    [kind |-> None, sections |-> <<>>, components_along_path |-> <<>>,
     sections1 |-> <<>>, sections2 |-> <<>>, width_type |-> None]

(***************************************************************************)
(* Path geometry used by the extrusion.                                    *)
(***************************************************************************)
Xs(points) == {points[i][1] : i \in 1..Len(points)}
MinOf(S) == CHOOSE m \in S : \A k \in S : m <= k
MaxOf(S) == CHOOSE m \in S : \A k \in S : m >= k
xmin(P) == MinOf(Xs(P.points))
xmax(P) == MaxOf(Xs(P.points))

RECURSIVE SumLen(_, _)
SumLen(points, i) ==
    IF i >= Len(points) THEN 0
    ELSE LET d == VSub(points[i + 1], points[i])
             abs(v) == IF v < 0 THEN -v ELSE v
         IN  abs(d[1]) + abs(d[2]) + SumLen(points, i + 1)

\* Path.length, lines 312-318; segments are parallel to an axis, so the
\* Euclidean length of each is |dx| + |dy|.
PathLength(P) == SumLen(P.points, 1)

\* Path._centerpoint_offset_curve, lines 268-293, for a scalar distance on a
\* path whose turns are 0 or +-90 degrees: theta_mid and dtheta_int move a
\* vertex by distance * (n_in + n_out) at a 90-degree turn and by distance * n
\* on a straight run (n the right normal of a segment); the two end points are
\* recomputed from start_angle and end_angle.
CenterpointOffsetCurve(points, distance, start_angle, end_angle) ==
    LET n == Len(points)
        theta(i) == Heading(points[i], points[i + 1])
        inner(i) ==
            CASE theta(i - 1) = theta(i) ->
                    VAdd(points[i], VScale(distance, RightNormal(theta(i))))
              [] (theta(i) - theta(i - 1)) % 180 = 90 ->
                    VAdd(points[i],
                         VScale(distance,
                                VAdd(RightNormal(theta(i - 1)), RightNormal(theta(i)))))
    IN  [i \in 1..n |->
            IF i = 1 THEN VAdd(points[1], VScale(distance, RightNormal(start_angle)))
            ELSE IF i = n THEN VAdd(points[n], VScale(distance, RightNormal(end_angle)))
            ELSE inner(i)]

\* Path.offset, lines 166-214, for the callable lambda t: d: the points are
\* offset by d, and the numerical derivative offset(ds) - offset(0) is 0, so
\* both angles stay.
PathOffsetCallable(P, d) ==
    PathRec(CenterpointOffsetCurve(P.points, d, P.start_angle, P.end_angle),
            P.start_angle, P.end_angle)

(***************************************************************************)
(* extrude.  Path objects live in a store of two cells: "p", the caller's   *)
(* Path, and "p_sec", the Path of the section being extruded; a reference  *)
(* names a cell, so that a copy and an alias differ.  Polygons are held by *)
(* section, layer and face widths, not by their vertices.                  *)
(***************************************************************************)
Ref(store, ref) == [store |-> store, ref |-> ref]

\* A faulty copy, which hands back the Path itself.
PathCopyAlias(store, ref) == Ref(store, ref)

\* Path.copy, lines 479-486: a new Path holding a copy of the points.
PathCopy(store, ref) == Ref([store EXCEPT !["p_sec"] = store[ref]], "p_sec")

\* extrude, lines 818-839: the section's insets.  "none": no insets to apply;
\* "skip": the warning and `continue`; "IndexError": np.argwhere(...)[0, 0] or
\* [-1, 0] of no match; "ok": the points handed to Path(...).
InsetClip(src, p_pts, insets) ==
    IF IsNone(insets) \/ Val(insets) = <<0, 0>>
    THEN [status |-> "none", points |-> p_pts]
    ELSE LET new_x_start == xmin(src) + Val(insets)[1]
             new_x_stop == xmax(src) - Val(insets)[2]
             after == {k \in 1..Len(p_pts) : p_pts[k][1] > new_x_start}
             before == {k \in 1..Len(p_pts) : p_pts[k][1] < new_x_stop}
         IN  IF new_x_start > MaxOf(Xs(p_pts)) \/ new_x_stop < MinOf(Xs(p_pts))
             THEN [status |-> "skip", points |-> p_pts]
             ELSE IF after = {} \/ before = {}
             THEN [status |-> "IndexError", points |-> p_pts]
             ELSE LET new_start_idx == MinOf(after)
                      new_stop_idx == MaxOf(before)
                  IN  [status |-> "ok",
                       points |-> <<Pt(new_x_start, p_pts[new_start_idx][2])>>
                                  \o SubSeq(p_pts, new_start_idx, new_stop_idx - 1)
                                  \o <<Pt(new_x_stop, p_pts[new_stop_idx][2])>>]

IsBool(simplify) == simplify \in {"True", "False"}

\* extrude, line 901: section.simplify or simplify.
WithSimplify(section, simplify) ==
    IF ~IsNone(section.simplify) THEN Val(section.simplify) ELSE simplify

\* extrude, lines 848-854: the width, <<w>> for the scalar w and <<w[0], w[-1]>>
\* for the array width_function(lengths / lengths[-1]).
SectionWidth(section) ==
    IF IsNone(section.width_function) THEN <<section.width>> ELSE section.width_function

\* A faulty port width, half the width of the start face.
PortWidthHalf(width, k) == width[1] \div 2

\* extrude, lines 916 and 937: width if np.isscalar(width) else width[0], width[-1].
PortWidth(width, k) == IF Len(width) = 1 THEN width[1] ELSE width[k]

\* A faulty start orientation, which faces into the path.
StartOrientationInward(start_angle) == start_angle % 360

\* extrude, line 917.
StartOrientation(start_angle) == (start_angle + 180) % 360

\* extrude, line 938.
EndOrientation(end_angle) == end_angle % 360

\* extrude, line 910: layers = layer if hidden else [layer, layer]; layer is a
\* (layer, datatype) pair, so that a hidden section's layers[0] and layers[1]
\* are the two integers.
ExtrudeLayers(layer, hidden) ==
    IF hidden THEN << <<layer[1]>>, <<layer[2]>> >> ELSE <<layer, layer>>

Port(name, layer, port_type, width, orientation, center, xs, sec, side) ==
    [name |-> name, layer |-> layer, port_type |-> port_type, width |-> width,
     orientation |-> orientation, center |-> center, cross_section |-> xs,
     sec |-> sec, side |-> side]

\* extrude, lines 914-956 (and extrude_transition, lines 1148-1188): a port at
\* each end whose port name is not None.
EmitPorts(st, port_names, port_types, layers, width, P, points, xs1, xs2, sec) ==
    [st EXCEPT !.ports = @
        \o (IF port_names[1] # None
            THEN << Port(port_names[1], get_layer(layers[1]), port_types[1],
                         PortWidth(width, 1), StartOrientation(P.start_angle),
                         points[1], xs1, sec, "start") >>
            ELSE <<>>)
        \o (IF port_names[2] # None
            THEN << Port(port_names[2], get_layer(layers[2]), port_types[2],
                         PortWidth(width, 2), EndOrientation(P.end_angle),
                         Last(points), xs2, sec, "end") >>
            ELSE <<>>)]

\* A faulty test, which emits the polygon of a path of no length.
EmitsPolygonAnyLength(hidden, length) == ~hidden

\* extrude, line 911 (and extrude_transition, line 1145): if not hidden and
\* p_sec.length() > 1e-3; a lattice length exceeds 1e-3 when it is not 0.
EmitsPolygon(hidden, length) == ~hidden /\ length > 0

Polygon(sec, layer, width, simplify) ==
    [sec |-> sec, layer |-> layer, width |-> width, simplify |-> simplify]

\* The state of one extrusion: the store, the Component being built (polygons,
\* ports), the warnings issued, the section paths p_sec extruded so far, and
\* the locals points, start_angle and end_angle, which outlive the section
\* loop (points is None until a section binds it).
StartState(P) ==
    [store |-> [p |-> P, p_sec |-> P], status |-> "ok", polygons |-> <<>>,
     ports |-> <<>>, warnings |-> <<>>, vias |-> <<>>, secs |-> <<>>,
     points |-> <<>>, start_angle |-> 0, end_angle |-> 0]

Raise(st, error) == [st EXCEPT !.status = error]

\* extrude, lines 796-956: one pass of the loop over x.sections.
ExtrudeSection(st, section, i, simplify) ==
    LET cp == PathCopy(st.store, "p")
        clip == InsetClip(cp.store["p"], cp.store[cp.ref].points, section.insets)
    IN  IF clip.status = "skip" THEN [st EXCEPT !.store = cp.store, !.warnings = @ \o <<i>>]
        ELSE IF clip.status = "IndexError" THEN Raise([st EXCEPT !.store = cp.store], "IndexError")
        ELSE
        LET sec == IF clip.status = "ok"
                   THEN Ref([cp.store EXCEPT !["p_sec"] = PathInit(ArgArray(clip.points)).path],
                            "p_sec")
                   ELSE cp
            off == IF ~IsNone(section.offset_function)
                   THEN [sec.store EXCEPT
                            ![sec.ref] = PathOffsetCallable(@, Val(section.offset_function))]
                   ELSE sec.store
            p_sec == off[sec.ref]
            layer == get_layer(section.layer)
            width == SectionWidth(section)
            bound == [st EXCEPT !.store = off, !.points = Some(p_sec.points),
                                !.start_angle = p_sec.start_angle,
                                !.end_angle = p_sec.end_angle,
                                !.secs = @ \o <<[sec |-> i, path |-> p_sec]>>]
        IN  IF IsBool(simplify) THEN Raise(bound, "ValueError: simplify")
            ELSE LET poly == IF EmitsPolygon(section.hidden, PathLength(p_sec))
                             THEN [bound EXCEPT !.polygons = @ \o
                                      <<Polygon(i, layer, width, WithSimplify(section, simplify))>>]
                             ELSE bound
                 IN  EmitPorts(poly, section.port_names, section.port_types,
                               ExtrudeLayers(layer, section.hidden), width, p_sec,
                               p_sec.points, "x", "x", i)

RECURSIVE ExtrudeSections(_, _, _, _)
\* extrude, line 795: for section in x.sections.
ExtrudeSections(st, sections, i, simplify) ==
    IF i > Len(sections) \/ st.status # "ok" THEN st
    ELSE ExtrudeSections(ExtrudeSection(st, sections[i], i, simplify), sections, i + 1, simplify)

\* extrude, lines 961-973: the Path one via is laid along.
ViaPath(st, via) ==
    IF via.offset # 0
    THEN IF IsNone(st.points) THEN Outcome("UnboundLocalError", EmptyPath)
         ELSE PathInit(ArgArray(CenterpointOffsetCurve(Val(st.points), via.offset,
                                                      st.start_angle, st.end_angle)))
    ELSE Outcome("ok", st.store["p"])

RECURSIVE ExtrudeVias(_, _, _)
\* extrude, line 960: for via in x.components_along_path.
ExtrudeVias(st, vias, k) ==
    IF k > Len(vias) \/ st.status # "ok" THEN st
    ELSE LET r == ViaPath(st, vias[k])
         IN  IF r.status # "ok" THEN Raise(st, r.status)
             ELSE ExtrudeVias([st EXCEPT !.vias = @ \o <<[via |-> k, path |-> r.path]>>],
                              vias, k + 1)

(***************************************************************************)
(* extrude_transition.                                                     *)
(***************************************************************************)
\* A faulty key, which ignores the section's name.
SectionKeyLayerOnly(section) ==
    LET l == get_layer(section.layer) IN <<"layer", "", l[1], l[2]>>

\* _get_named_sections, line 984: section.name or get_layer(section.layer).
\* A key is <<"name", name, 0, 0>> or <<"layer", "", layer, datatype>>.
SectionKey(section) ==
    IF section.name # None THEN <<"name", section.name, 0, 0>>
    ELSE LET l == get_layer(section.layer) IN <<"layer", "", l[1], l[2]>>

\* _get_named_sections, lines 985-988: the duplicate-key error.
HasDuplicateKey(sections) ==
    \E i, j \in 1..Len(sections) : i < j /\ SectionKey(sections[i]) = SectionKey(sections[j])

\* _get_named_sections, lines 979-990: the keys of the dict it returns.
NamedKeys(sections) == {SectionKey(sections[i]) : i \in 1..Len(sections)}

\* named_sections[key]: the index of the section held under key.
KeyIndex(sections, key) == CHOOSE i \in 1..Len(sections) : SectionKey(sections[i]) = key

\* extrude_transition, line 1024: set(names1).intersection(names2).
CommonSections(sections1, sections2) == NamedKeys(sections1) \cap NamedKeys(sections2)

\* The width laws, lines 492-524, at the two ends t = 0 and t = 1, where
\* cos(pi t) is 1 and -1 and the square roots are of 0 and 1.
CosPi(t) == IF t = 0 THEN 1 ELSE -1
Sqrt01(v) == v
SinusoidalAt(y1, y2, t) == y1 + ((1 - CosPi(t)) \div 2) * (y2 - y1)
ParabolicAt(y1, y2, t) == y1 + Sqrt01(t) * (y2 - y1)
LinearAt(y1, y2, t) == y1 + t * (y2 - y1)
\* A faulty ellipse, which runs from y2 to y1.
EllipticalAtReversed(y1, y2, t) == y1 + (y2 - y1) * Sqrt01(1 - t * t)
\* _elliptical_transition, lines 516-522.
EllipticalAt(y1, y2, t) == y2 - (y2 - y1) * Sqrt01(1 - t * t)

\* Two callables a caller may pass as width_type: w1 + t (w2 - w1), and the
\* width_type_function of lines 1624-1625, w1 + (w2 - w1) (t + 1) / 2.
CallableAt(width_type, y1, y2, t) ==
    CASE width_type = "callable_linear" -> y1 + t * (y2 - y1)
      [] width_type = "callable_half" -> y1 + ((y2 - y1) * (t + 1)) \div 2

BuiltinWidthTypes == {"sine", "linear", "parabolic", "elliptical"}
CallableWidthTypes == {"callable_linear", "callable_half"}

\* extrude_transition, lines 1053-1070 and 1093: the width law sampled along
\* the path, by its first and last entry.
TransitionWidth(width_type, width1, width2) ==
    CASE width_type = "linear" -> <<LinearAt(width1, width2, 0), LinearAt(width1, width2, 1)>>
      [] width_type = "sine" ->
            <<SinusoidalAt(width1, width2, 0), SinusoidalAt(width1, width2, 1)>>
      [] width_type = "parabolic" ->
            <<ParabolicAt(width1, width2, 0), ParabolicAt(width1, width2, 1)>>
      [] width_type = "elliptical" ->
            <<EllipticalAt(width1, width2, 0), EllipticalAt(width1, width2, 1)>>
      [] width_type \in CallableWidthTypes ->
            <<CallableAt(width_type, width1, width2, 0), CallableAt(width_type, width1, width2, 1)>>

\* extrude_transition, lines 1051 and 1081: p_sec.offset(sine) with the offset
\* interpolated from offset1 to offset2.  Sections paired here have the same
\* offset, so that sine is the constant callable.
TransitionOffset(P, offset1, offset2) ==
    CASE offset1 = offset2 -> PathOffsetCallable(P, offset1)

\* extrude_transition, lines 1144: layers = layer if hidden else [layer, layer],
\* where a hidden layer is the pair (layer1, layer2).
TransitionLayers(layer, hidden) == IF hidden THEN layer ELSE <<layer, layer>>

\* Faulty port widths, the two ends of the interpolated width.
TransitionPortWidthsInterpolated(width1, width2, width) == width

\* extrude_transition, lines 1150 and 1170: port_width = width1, port_width = width2.
TransitionPortWidths(width1, width2, width) == <<width1, width2>>

\* extrude_transition, lines 1031-1188: one matched pair of sections.
TransitionSection(st, t, key) ==
    LET i1 == KeyIndex(t.sections1, key)
        section1 == t.sections1[i1]
        section2 == t.sections2[KeyIndex(t.sections2, key)]
        cp == PathCopy(st.store, "p")
        hidden == section1.layer # section2.layer
        layer == IF hidden THEN <<get_layer(section1.layer), get_layer(section2.layer)>>
                 ELSE get_layer(section1.layer)
        off == [cp.store EXCEPT
                   ![cp.ref] = TransitionOffset(@, section1.offset, section2.offset)]
        p_sec == off[cp.ref]
        width == TransitionWidth(t.width_type, section1.width, section2.width)
        bound == [st EXCEPT !.store = off, !.points = Some(p_sec.points),
                            !.start_angle = p_sec.start_angle, !.end_angle = p_sec.end_angle,
                            !.secs = @ \o <<[sec |-> i1, path |-> p_sec]>>]
        poly == IF EmitsPolygon(hidden, PathLength(p_sec))
                THEN [bound EXCEPT !.polygons = @ \o <<Polygon(i1, layer, width, None)>>]
                ELSE bound
    IN  EmitPorts(poly, section1.port_names, section1.port_types,
                  TransitionLayers(layer, hidden),
                  TransitionPortWidths(section1.width, section2.width, width),
                  p_sec, p_sec.points, "x1", "x2", i1)

RECURSIVE TransitionSections(_, _, _, _)
\* extrude_transition, line 1030: for section_name in common_sections, in the
\* order ord in which the set happens to be iterated.
TransitionSections(st, t, ord, k) ==
    IF k > Len(ord) THEN st
    ELSE TransitionSections(TransitionSection(st, t, ord[k]), t, ord, k + 1)

\* What the caller gets: the Component of a call that returns, nothing of one
\* that raises.
Result(st) ==
    [status |-> st.status,
     polygons |-> IF st.status = "ok" THEN st.polygons ELSE <<>>,
     ports |-> IF st.status = "ok" THEN st.ports ELSE <<>>,
     vias |-> IF st.status = "ok" THEN st.vias ELSE <<>>,
     warnings |-> st.warnings,
     secs |-> st.secs,
     length |-> IF st.status = "ok" THEN PathLength(st.store["p"]) ELSE 0,
     store |-> st.store]

\* extrude_transition, lines 994-1191.
extrude_transition(P, t, ord) ==
    IF HasDuplicateKey(t.sections1) \/ HasDuplicateKey(t.sections2)
    THEN Result(Raise(StartState(P), "ValueError: duplicate name or layer"))
    ELSE IF CommonSections(t.sections1, t.sections2) = {}
    THEN Result(Raise(StartState(P), "ValueError: no common layers"))
    ELSE Result(TransitionSections(StartState(P), t, ord, 1))

\* extrude, lines 771-780: the cross-section made of layer and width.
LayerWidthCrossSection(layer, width) ==
    CrossSection(<<Section(None, Val(width), 0, Val(layer), <<"o1", "o2">>,
                           <<"optical", "optical">>)>>, <<>>)

\* extrude, lines 729-976.
extrude(P, cross_section, layer, width, simplify, ord) ==
    IF cross_section.kind = None /\ IsNone(layer)
    THEN Result(Raise(StartState(P), "ValueError: CrossSection or layer needed"))
    ELSE IF cross_section.kind # None /\ ~IsNone(layer)
    THEN Result(Raise(StartState(P), "ValueError: Define only CrossSection or layer"))
    ELSE IF ~IsNone(layer) /\ IsNone(width)
    THEN Result(Raise(StartState(P), "ValueError: Need to define layer width"))
    ELSE LET x == IF ~IsNone(width) /\ Val(width) # 0
                  THEN LayerWidthCrossSection(layer, width)
                  ELSE cross_section
         IN  IF x.kind = "Transition" THEN extrude_transition(P, x, ord)
             ELSE LET done == ExtrudeSections(StartState(P), x.sections, 1, simplify)
                  IN  Result(ExtrudeVias(done, x.components_along_path, 1))

(***************************************************************************)
(* The paths, sections and cross-sections the extrusion is called with.    *)
(***************************************************************************)
SrcPaths ==
    { PathInit(ArgArray(a)).path :
        a \in { <<Pt(0, 0), Pt(4, 0)>>,
                <<Pt(0, 0), Pt(2, 0), Pt(4, 0)>>,
                <<Pt(0, 0), Pt(4, 0), Pt(4, 2)>>,
                <<Pt(0, 0), Pt(0, 3)>>,
                <<Pt(0, 0), Pt(0, 0)>> } }

Optical == <<"optical", "optical">>
Core == Section("core", 2, 0, <<1, 0>>, <<"o1", "o2">>, Optical)
Slab == Section("slab", 4, 1, <<2, 0>>, <<None, None>>, Optical)
Heater ==
    [Section(None, 2, 0, <<3, 6>>, <<"e1", None>>, <<"electrical", "electrical">>)
        EXCEPT !.hidden = TRUE]

\* Insets on paths whose x-extent is 4 or 0: inside the path, crossing each
\* other, ending on the path's last x, and beyond the path on either side.
InsetChoices == {<<0, 0>>, <<1, 1>>, <<3, 3>>, <<4, 0>>, <<5, 0>>, <<0, 5>>}

CoreSections ==
    {Core}
    \cup {[Core EXCEPT !.insets = Some(i)] : i \in InsetChoices}
    \cup {[Core EXCEPT !.offset_function = Some(1)],
          [Core EXCEPT !.offset_function = Some(1), !.insets = Some(<<1, 1>>)],
          [Core EXCEPT !.width_function = <<2, 4>>],
          [Core EXCEPT !.simplify = Some("1e-2")],
          [Core EXCEPT !.hidden = TRUE]}

OtherSections ==
    {Slab, [Slab EXCEPT !.insets = Some(<<5, 0>>)], [Slab EXCEPT !.hidden = TRUE], Heater}

\* No two sections of a cross-section name the same port.
PortNamesDistinct(sections) ==
    \A i, j \in 1..Len(sections) :
        i < j =>
            \A a, b \in 1..2 :
                sections[i].port_names[a] = None
                \/ sections[i].port_names[a] # sections[j].port_names[b]

\* A cross-section has one or more sections.
SectionSeqs(S) ==
    {sq \in UNION {[1..n -> S] : n \in 1..MaxSections} : PortNamesDistinct(sq)}

ViaChoices == {<<>>, <<Via(0, 2, 0)>>, <<Via(1, 2, 0)>>}

PlainCrossSections ==
    {CrossSection(sq, v) : sq \in SectionSeqs(CoreSections \cup OtherSections), v \in ViaChoices}

TCore1 == Section("core", 2, 0, <<1, 0>>, <<"o1", "o2">>, Optical)
TCore2 == Section("core", 4, 0, <<1, 0>>, <<"o1", "o2">>, Optical)
TCore3 == Section("core", 4, 0, <<3, 0>>, <<"o1", "o2">>, Optical)
TSlab == Section("slab", 4, 1, <<2, 0>>, <<None, None>>, Optical)
TAnon1 == Section(None, 2, 0, <<1, 0>>, <<None, None>>, Optical)
TAnon2 == Section(None, 4, 0, <<2, 0>>, <<None, None>>, Optical)

\* transition, lines 624-662: the Transition of two cross-sections, or the
\* error when no layer is a layer of both.  X.layer is the layer of the
\* cross-section's first section.
transition(sections1, sections2, width_type) ==
    LET layers1 == {get_layer(sections1[i].layer) : i \in 1..Len(sections1)}
                   \cup {get_layer(sections1[1].layer)}
        layers2 == {get_layer(sections2[i].layer) : i \in 1..Len(sections2)}
                   \cup {get_layer(sections2[1].layer)}
        has_common_layers == layers1 \cap layers2 # {}
    IN  IF ~has_common_layers
        THEN [status |-> "ValueError: no common layers", t |-> NoCrossSection]
        ELSE [status |-> "ok", t |-> Transition(sections1, sections2, width_type)]

Transitions ==
    {Transition(s1, s2, w) :
        s1 \in SectionSeqs({TCore1, TSlab, TAnon1}),
        s2 \in SectionSeqs({TCore2, TCore3, TSlab, TAnon1, TAnon2}),
        w \in BuiltinWidthTypes \cup CallableWidthTypes}

\* The Transitions handed to extrude as its cross_section.
ExtrudedTransitions ==
    {Transition(s1, s2, "sine") : s1 \in {<<TCore1>>, <<TSlab>>}, s2 \in {<<TCore2>>, <<TCore3>>}}

SimplifyChoices == {None, "1e-3", "True", "False"}

Call(cs, layer, width, simplify) ==
    [fn |-> "extrude", cross_section |-> cs, layer |-> layer, width |-> width,
     simplify |-> simplify]

\* extrude(p, cross_section=x), extrude(p, layer=, width=), and the calls that
\* name too little or too much.
ExtrudeCalls ==
    {Call(x, <<>>, <<>>, sf) :
        x \in PlainCrossSections \cup ExtrudedTransitions, sf \in SimplifyChoices}
    \cup {Call(NoCrossSection, l, w, sf) :
            l \in {<<>>, Some(<<1, 0>>)}, w \in {<<>>, Some(2), Some(4)},
            sf \in SimplifyChoices}
    \cup {Call(CrossSection(<<Core>>, <<>>), Some(<<1, 0>>), w, None) : w \in {<<>>, Some(2)}}

\* The orders in which a set of keys may be iterated.
Orders(S) == {sq \in [1..Cardinality(S) -> S] : \A i, j \in 1..Cardinality(S) : sq[i] = sq[j] => i = j}

TransitionOrders(x) ==
    IF x.kind = "Transition" /\ ~HasDuplicateKey(x.sections1) /\ ~HasDuplicateKey(x.sections2)
    THEN Orders(CommonSections(x.sections1, x.sections2))
    ELSE {<<>>}

NoCall ==
    [fn |-> "none", cross_section |-> NoCrossSection, layer |-> <<>>, width |-> <<>>,
     simplify |-> None, p |-> EmptyPath]
NoResult ==
    [status |-> "none", polygons |-> <<>>, ports |-> <<>>, vias |-> <<>>,
     warnings |-> <<>>, secs |-> <<>>, length |-> 0]

Returned(r) ==
    [status |-> r.status, polygons |-> r.polygons, ports |-> r.ports, vias |-> r.vias,
     warnings |-> r.warnings, secs |-> r.secs, length |-> r.length]

(***************************************************************************)
(* Extrusion calls.                                                        *)
(***************************************************************************)
\* extrude(p, cross_section, layer, width, simplify).  A path is extruded once.
Extrude ==
    /\ call.fn = "none"
    /\ \E c \in ExtrudeCalls :
        \E ord \in TransitionOrders(c.cross_section) :
            LET r == extrude(p, c.cross_section, c.layer, c.width, c.simplify, ord)
            IN  /\ p' = r.store["p"]
                /\ call' = [fn |-> "extrude", cross_section |-> c.cross_section,
                            layer |-> c.layer, width |-> c.width,
                            simplify |-> c.simplify, p |-> p]
                /\ res' = Returned(r)
                /\ UNCHANGED <<A, route, last, invoked, objs>>

\* extrude_transition(p, t) for a Transition t of two cross-sections; made is
\* what transition() returns for the same two cross-sections.
ExtrudeTransition ==
    /\ call.fn = "none"
    /\ \E t \in Transitions :
        \E ord \in TransitionOrders(t) :
            LET r == extrude_transition(p, t, ord)
            IN  /\ p' = r.store["p"]
                /\ call' = [fn |-> "extrude_transition", cross_section |-> t,
                            layer |-> <<>>, width |-> <<>>, simplify |-> None, p |-> p,
                            made |-> transition(t.sections1, t.sections2, t.width_type)]
                /\ res' = Returned(r)
                /\ UNCHANGED <<A, route, last, invoked, objs>>

(***************************************************************************)
(* along_path.  Arc lengths and instance positions are held doubled, so    *)
(* that the half-integer (length - (number - 1) * spacing) / 2 is exact.   *)
(***************************************************************************)
NotInvoked == [fn |-> "none"]

\* The value of 0 / 0 in numpy: not a number.
NaN == <<>>

\* A faulty number, which forgets the padding.
AlongNumberNoPadding(length, spacing, padding) == length \div spacing + 1

\* along_path, line 690: number = (length - 2 * padding) // spacing + 1.
AlongNumber(length, spacing, padding) == (length - 2 * padding) \div spacing + 1

\* along_path, lines 710-712: the length of a segment parallel to an axis, and
\* unit_vector = segment_vector / segment_length, which is nan for a segment
\* of length 0.
SegmentLength(a, b) ==
    LET d == VSub(b, a)
        abs(v) == IF v < 0 THEN -v ELSE v
    IN  abs(d[1]) + abs(d[2])
UnitVector(a, b) ==
    IF SegmentLength(a, b) = 0 THEN NaN
    ELSE <<(b[1] - a[1]) \div SegmentLength(a, b), (b[2] - a[2]) \div SegmentLength(a, b)>>

\* along_path, lines 699-706: arctan2 of the segment, 0 for arctan2(0, 0).
SegmentAngle(a, b) == IF a = b THEN 0 ELSE Heading(a, b)

\* along_path, lines 718-721: the instance placed at arc length next2 / 2 of
\* segment i, which starts at arc length cum: rotated by the segment's angle
\* and moved to start_pt + (next_component - cum_dist) * unit_vector.
Placement(P, i, cum, next2) ==
    LET start_pt == P.points[i]
        unit == UnitVector(start_pt, P.points[i + 1])
    IN  [at2 |-> IF unit = NaN THEN NaN
                 ELSE VAdd(VScale(2, start_pt), VScale(next2 - 2 * cum, unit)),
         angle |-> SegmentAngle(start_pt, P.points[i + 1]),
         arc2 |-> next2,
         seg |-> i]

RECURSIVE AlongSegments(_, _, _, _, _, _, _)
\* along_path, lines 708-723: the loop over the segments and, in a segment,
\* the while loop that places instances up to the segment's end and up to stop.
AlongSegments(P, i, cum, next2, stop2, spacing, placed) ==
    IF i >= Len(P.points) THEN placed
    ELSE LET segment_length == SegmentLength(P.points[i], P.points[i + 1])
         IN  IF next2 <= 2 * (cum + segment_length) /\ next2 <= stop2
             THEN AlongSegments(P, i, cum, next2 + 2 * spacing, stop2, spacing,
                                Append(placed, Placement(P, i, cum, next2)))
             ELSE AlongSegments(P, i + 1, cum + segment_length, next2, stop2, spacing,
                                placed)

\* along_path, lines 666-725, for spacing > 0: the instances it places.
along_path(P, spacing, padding) ==
    LET length == PathLength(P)
        number == AlongNumber(length, spacing, padding)
        next2 == length - (number - 1) * spacing
        stop2 == 2 * length - next2
    IN  AlongSegments(P, 1, 0, next2, stop2, spacing, <<>>)

\* The paths along_path is called with: Path(), a single point; straight(0),
\* one segment of length 0; and paths of length 20 and 5 in one, two and
\* three segments.
AlongPaths ==
    {PathRec(pts, 0, 0) :
        pts \in { <<Pt(0, 0)>>,
                  <<Pt(0, 0), Pt(0, 0)>>,
                  <<Pt(0, 0), Pt(20, 0)>>,
                  <<Pt(0, 0), Pt(8, 0), Pt(20, 0)>>,
                  <<Pt(0, 0), Pt(8, 0), Pt(8, 12)>>,
                  <<Pt(0, 0), Pt(4, 0), Pt(4, 4), Pt(16, 4)>>,
                  <<Pt(0, 0), Pt(0, 5)>> } }

\* along_path(p, component, spacing, padding), called once.
AlongPath ==
    /\ invoked.fn = "none"
    /\ \E P \in AlongPaths, spacing \in 1..MaxSpacing, padding \in 0..MaxPadding :
        /\ invoked' = [fn |-> "along_path", p |-> P, spacing |-> spacing,
                       padding |-> padding, placed |-> along_path(P, spacing, padding)]
        /\ UNCHANGED <<A, route, last, p, call, res, objs>>

(***************************************************************************)
(* smooth, for waypoints whose segments are parallel to an axis, so that   *)
(* a turn is 0, 90, -90 or 180 degrees, and for bend = arc.                *)
(*                                                                         *)
(* Floating point.  For a 90-degree arc of radius R the code computes      *)
(* r = (chord / 2) / sin(radians(dt / 2)) and d = |r / tan(radians(180 -   *)
(* dt) / 2)|.  In exact arithmetic d = R.  In IEEE doubles tan(radians(90) *)
(* / 2) is 0.9999999999999999 and tan(radians(270) / 2) is                 *)
(* -1.0000000000000002 when correctly rounded, and 1.0 and -1.0 within one *)
(* unit in the last place, so d is R or just above R for a left turn and R *)
(* or just below R for a right turn, depending on the build's libm.  A     *)
(* tangent length is held as its exact value and the sign of its rounding  *)
(* error.                                                                  *)
(***************************************************************************)
\* _compute_segments, line 1514: dtheta - 360 * floor((dtheta + 180) / 360),
\* a turn in [-180, 180).
NormalizeTurn(dtheta) == dtheta - 360 * ((dtheta + 180) \div 360)

\* _compute_segments, lines 1505-1515: ds, theta and dtheta of the points.
compute_segments(points) ==
    LET theta == [i \in 1..(Len(points) - 1) |-> Heading(points[i], points[i + 1])]
    IN  [points |-> points,
         ds |-> [i \in 1..(Len(points) - 1) |-> SegmentLength(points[i], points[i + 1])],
         theta |-> theta,
         dtheta |-> [i \in 1..(Len(points) - 2) |-> NormalizeTurn(theta[i + 1] - theta[i])]]

RECURSIVE RemoveColinear(_, _, _)
\* smooth, lines 1545-1547: points[~colinear_elements], the points but the
\* interior ones at which the path does not turn.
RemoveColinear(points, dtheta, i) ==
    IF i > Len(points) THEN <<>>
    ELSE IF i > 1 /\ i < Len(points) /\ dtheta[i - 1] = 0
    THEN RemoveColinear(points, dtheta, i + 1)
    ELSE <<points[i]>> \o RemoveColinear(points, dtheta, i + 1)

\* A faulty test, which takes every turn for a turn back.
DoubleBackAnyTurn(dtheta) == dtheta # 0

\* smooth, line 1550: abs(abs(dtheta) - 180) < 1e-6.
DoubleBack(dtheta) == dtheta = 180 \/ dtheta = -180

\* smooth, lines 1560-1569, for bend = arc and a turn of 90 or -90 degrees: the
\* tangent length d, exactly radius, and the sign of its rounding error when
\* the tangent is rounded (rounded = 1) and when it is not (rounded = 0).
TangentLength(radius, dtheta, rounded) ==
    CASE dtheta = 90 -> [exact |-> radius, error |-> rounded]
      [] dtheta = -90 -> [exact |-> radius, error |-> -rounded]

\* smooth, line 1570: encroachment = [0, d] + [d, 0], by segment.
Encroachment(d, j) ==
    LET before == IF j > 1 THEN d[j - 1] ELSE [exact |-> 0, error |-> 0]
        after == IF j <= Len(d) THEN d[j] ELSE [exact |-> 0, error |-> 0]
    IN  [exact |-> before.exact + after.exact, error |-> before.error + after.error]

\* smooth, line 1571: encroachment > ds.
Exceeds(e, length) == e.exact > length \/ (e.exact = length /\ e.error > 0)

\* smooth, lines 1576-1592: the Path through the waypoints with each corner
\* replaced by its bend, held by the points where the bends begin and end.
SmoothPath(seg, d) ==
    LET n == Len(seg.dtheta)
        dir(i) == UnitVector(seg.points[i], seg.points[i + 1])
        corner(k) ==
            << VSub(seg.points[k + 1], VScale(d[k].exact, dir(k))),
               VAdd(seg.points[k + 1], VScale(d[k].exact, dir(k + 1))) >>
        RECURSIVE corners(_)
        corners(k) == IF k > n THEN <<>> ELSE corner(k) \o corners(k + 1)
    IN  PathRec(<<seg.points[1]>> \o corners(1) \o <<Last(seg.points)>>,
                seg.theta[1], seg.theta[Len(seg.theta)] % 360)

\* smooth, lines 1518-1592.  bends counts the calls of bend made.
smooth(points, radius, rounding) ==
    LET first == compute_segments(points)
        seg == IF \E i \in 1..Len(first.dtheta) : first.dtheta[i] = 0
               THEN compute_segments(RemoveColinear(points, first.dtheta, 1))
               ELSE first
        n == Len(seg.dtheta)
        d == [k \in 1..n |-> TangentLength(radius, seg.dtheta[k], rounding[k])]
    IN  IF \E k \in 1..n : DoubleBack(seg.dtheta[k])
        THEN [status |-> "ValueError: double-back", bends |-> 0, path |-> <<>>]
        ELSE IF \E j \in 1..(n + 1) : Exceeds(Encroachment(d, j), seg.ds[j])
        THEN [status |-> "ValueError: not enough distance", bends |-> n, path |-> <<>>]
        ELSE [status |-> "ok", bends |-> n, path |-> <<SmoothPath(seg, d)>>]

\* The lists of waypoints: from the origin, one to MaxSteps steps of length
\* 1, 2 or 4 to the east, north, west or south.
Directions == {<<1, 0>>, <<0, 1>>, <<-1, 0>>, <<0, -1>>}
StepLengths == {1, 2, 4}
StepSeqs ==
    UNION {[1..n -> {VScale(l, dir) : l \in StepLengths, dir \in Directions}] :
            n \in 1..MaxSteps}
RECURSIVE Waypoints(_, _, _)
Waypoints(steps, i, at) ==
    IF i > Len(steps) THEN <<at>>
    ELSE <<at>> \o Waypoints(steps, i + 1, VAdd(at, steps[i]))

\* smooth(points, radius, bend=arc), called once.
Smooth ==
    /\ invoked.fn = "none"
    /\ \E steps \in StepSeqs, radius \in 1..MaxRadius, rounding \in [1..MaxSteps -> {0, 1}] :
        /\ invoked' = [fn |-> "smooth", points |-> Waypoints(steps, 1, Pt(0, 0)),
                       steps |-> steps, radius |-> radius,
                       out |-> smooth(Waypoints(steps, 1, Pt(0, 0)), radius, rounding)]
        /\ UNCHANGED <<A, route, last, p, call, res, objs>>

(***************************************************************************)
(* Path objects held by name.  An object refers to its points array by the *)
(* array's identity pid and to its info dict by iid: two objects with one  *)
(* pid see each other's in-place writes.                                   *)
(***************************************************************************)
\* origin and destination of move give the displacement destination - origin.
PathMove(P, d) ==
    PathRec([i \in 1..Len(P.points) |-> VAdd(P.points[i], d)], P.start_angle, P.end_angle)

\* A faulty rotate, which leaves end_angle as it was.
RotateAnglesStartOnly(start_angle, end_angle, angle) == <<(start_angle + angle) % 360, end_angle>>

\* Path.rotate, lines 244-247.
RotateAngles(start_angle, end_angle, angle) ==
    <<(start_angle + angle) % 360, (end_angle + angle) % 360>>

\* Path.rotate, lines 232-248, about the origin.
PathRotate(P, angle) ==
    IF angle = 0 THEN P
    ELSE LET a == RotateAngles(P.start_angle, P.end_angle, angle)
         IN  PathRec(RotatePoints(P.points, angle), a[1], a[2])

\* _reflect_points across the line through p1 and p2, a line parallel to an axis.
ReflectPt(q, p1, p2) ==
    IF p1[1] = p2[1] THEN <<2 * p1[1] - q[1], q[2]>> ELSE <<q[1], 2 * p1[2] - q[2]>>

\* Path.mirror, lines 250-266.
PathMirror(P, p1, p2) ==
    LET angle == Atan2Deg(p2[2] - p1[2], p2[1] - p1[1])
    IN  PathRec([i \in 1..Len(P.points) |-> ReflectPt(P.points[i], p1, p2)],
                (2 * angle - P.start_angle) % 360,
                (2 * angle - P.end_angle) % 360)

\* Path.offset, lines 166-214, for a number.
PathOffset(P, d) ==
    IF d = 0 THEN P
    ELSE PathRec(CenterpointOffsetCurve(P.points, d, P.start_angle, P.end_angle),
                 P.start_angle, P.end_angle)

Names == {"a", "b", "c", "s"}

Obj(P, pid, info, iid) ==
    [live |-> TRUE, points |-> P.points, pid |-> pid, start_angle |-> P.start_angle,
     end_angle |-> P.end_angle, info |-> info, iid |-> iid]
NoObj ==
    [live |-> FALSE, points |-> <<>>, pid |-> 0, start_angle |-> 0, end_angle |-> 0,
     info |-> "none", iid |-> 0]

\* The Path an object is.
PathOf(o) == PathRec(o.points, o.start_angle, o.end_angle)

NoMethod == [name |-> "none", target |-> "none", arg |-> "none", input |-> <<>>]
NoObjs ==
    [path |-> [n \in Names |-> NoObj], next |-> 1, ops |-> 0, op |-> NoMethod,
     pre |-> [n \in Names |-> NoObj]]

\* self.points = <a new array>, with new angles.
Rebind(H, x, P) ==
    [H EXCEPT !.path[x] = [@ EXCEPT !.points = P.points, !.pid = H.next,
                                    !.start_angle = P.start_angle,
                                    !.end_angle = P.end_angle],
              !.next = @ + 1]

\* An in-place write to the array pid: every object that refers to it sees it.
WriteArray(H, pid, points) ==
    [H EXCEPT !.path = [n \in Names |->
        IF H.path[n].live /\ H.path[n].pid = pid
        THEN [H.path[n] EXCEPT !.points = points]
        ELSE H.path[n]]]

\* A faulty copy, which hands the new Path the array of the old one.
copySharingPoints(self, fresh) == [self EXCEPT !.iid = fresh]

\* Path.copy, lines 479-486: np.array(self.points) and self.info.copy() are a
\* new array and a new dict.
copy(self, fresh) == [self EXCEPT !.pid = fresh, !.iid = fresh]

\* Path.append(path) for a Path object y, lines 128-131 and 154-162: points is
\* y's own array, line 156 writes to points in place, and x is given a new
\* array by np.vstack.  _rotate_points hands back either a new array or, for
\* a rotation of 0 degrees, possibly the array it was given (inplace).
AppendObject(H, x, y, inplace) ==
    LET self == PathOf(H.path[x])
        arg == H.path[y]
        moved == AppendTranslate(AppendRotate(arg.points, self.end_angle, arg.start_angle),
                                 Last(self.points))
        written == IF inplace /\ self.end_angle - arg.start_angle = 0
                   THEN WriteArray(H, arg.pid, moved)
                   ELSE H
    IN  Rebind(written, x, AppendCore(self, arg.points, arg.start_angle, arg.end_angle))

\* Records the method call that led from objs to the objects of H.
Called(H, name, target, arg, input) ==
    [path |-> H.path, next |-> H.next, ops |-> objs.ops + 1,
     op |-> [name |-> name, target |-> target, arg |-> arg, input |-> input],
     pre |-> objs.path]

LiveNames == {n \in Names : objs.path[n].live}
Rest == UNCHANGED <<A, route, last, p, call, res, invoked>>

HeapPaths ==
    { PathInit(ArgArray(a)).path :
        a \in { <<Pt(0, 0), Pt(2, 0)>>, <<Pt(0, 0), Pt(1, 0), Pt(1, -1)>> } }
MoveChoices == {Pt(1, 2)}
RotateChoices == {0, 90}
MirrorChoices == { <<Pt(0, 1), Pt(0, 0)>> }
OffsetChoices == {0, 1}

\* The paths the lattice holds the offset of: segments parallel to an axis
\* that meet at 0 or 90 degrees.
OnLattice(points) ==
    /\ \A i \in 1..(Len(points) - 1) :
            points[i][1] = points[i + 1][1] \/ points[i][2] = points[i + 1][2]
    /\ \A i \in 2..(Len(points) - 1) :
            LET t == Heading(points[i], points[i + 1]) - Heading(points[i - 1], points[i])
            IN  t % 180 = 90 \/ t = 0

\* c = a.copy().
Copy ==
    /\ ~objs.path["c"].live
    /\ objs' = [objs EXCEPT !.path["c"] = copy(objs.path["a"], objs.next),
                            !.next = @ + 1,
                            !.op = [name |-> "copy", target |-> "c", arg |-> "a", input |-> <<>>],
                            !.pre = objs.path]
    /\ Rest

\* s = a + b, lines 104-107: new = self.copy(); return new.append(path).
Add ==
    /\ ~objs.path["s"].live
    /\ \E inplace \in BOOLEAN :
        LET new == [objs EXCEPT !.path["s"] = copy(objs.path["a"], objs.next),
                                !.next = @ + 1]
            H == AppendObject(new, "s", "b", inplace)
        IN  objs' = [objs EXCEPT !.path = H.path, !.next = H.next,
                                 !.op = [name |-> "add", target |-> "s", arg |-> "b",
                                         input |-> <<>>],
                                 !.pre = objs.path]
    /\ Rest

\* x.move(destination=d).
Move ==
    /\ objs.ops < MaxOps
    /\ \E x \in LiveNames, d \in MoveChoices :
        objs' = Called(WriteArray(objs, objs.path[x].pid, PathMove(PathOf(objs.path[x]), d).points),
                       "move", x, "none", d)
    /\ Rest

\* x.rotate(angle).
Rotate ==
    /\ objs.ops < MaxOps
    /\ \E x \in LiveNames, angle \in RotateChoices :
        objs' = Called(IF angle = 0 THEN objs
                       ELSE Rebind(objs, x, PathRotate(PathOf(objs.path[x]), angle)),
                       "rotate", x, "none", angle)
    /\ Rest

\* x.mirror(p1, p2).
Mirror ==
    /\ objs.ops < MaxOps
    /\ \E x \in LiveNames, l \in MirrorChoices :
        objs' = Called(Rebind(objs, x, PathMirror(PathOf(objs.path[x]), l[1], l[2])),
                       "mirror", x, "none", l)
    /\ Rest

\* x.offset(d).
Offset ==
    /\ objs.ops < MaxOps
    /\ \E x \in LiveNames, d \in OffsetChoices :
        /\ OnLattice(objs.path[x].points)
        /\ objs' = Called(IF d = 0 THEN objs
                       ELSE Rebind(objs, x, PathOffset(PathOf(objs.path[x]), d)),
                       "offset", x, "none", d)
    /\ Rest

\* x.append(points) for an array of points, and x.append(y) for a Path object.
AppendTo ==
    /\ objs.ops < MaxOps
    /\ \E x \in LiveNames :
        /\ Len(objs.path[x].points) < MaxPts
        /\ OnLattice(objs.path[x].points)
        /\ \/ LET arg == ArgArray(<<Pt(0, 0), Pt(1, 0), Pt(1, 1)>>)
              IN  objs' = Called(Rebind(objs, x, PathAppend(PathOf(objs.path[x]), arg).path),
                                 "append", x, "none", arg.points)
           \/ \E y \in LiveNames \ {x}, inplace \in BOOLEAN :
                objs' = Called(AppendObject(objs, x, y, inplace), "append", x, y, <<>>)
    /\ Rest

\* x.info[key] = v: a write to the dict x refers to.
SetInfo ==
    /\ objs.ops < MaxOps
    /\ \E x \in LiveNames :
        LET H == [objs EXCEPT !.path = [n \in Names |->
                    IF objs.path[n].live /\ objs.path[n].iid = objs.path[x].iid
                    THEN [objs.path[n] EXCEPT !.info = "written"]
                    ELSE objs.path[n]]]
        IN  objs' = Called(H, "info", x, "none", <<>>)
    /\ Rest

InitObjs ==
    /\ A = EmptyPath
    /\ route = [ctor |-> "none", appends |-> 0, arrays |-> TRUE, match |-> TRUE]
    /\ last = NoOp
    /\ p = EmptyPath
    /\ call = NoCall
    /\ res = NoResult
    /\ invoked = NotInvoked
    /\ \E Pa \in HeapPaths :
        objs = [NoObjs EXCEPT !.path["a"] = Obj(Pa, 1, "Reff", 1),
                              !.path["b"] = Obj(PathInit(ArgArray(<<Pt(0, 0), Pt(2, 0)>>)).path,
                                                2, "Rmin", 2),
                              !.next = 3]

NextObjs == Copy \/ Add \/ Move \/ Rotate \/ Mirror \/ Offset \/ AppendTo \/ SetInfo

\* Method calls on Path objects and their copies.
SpecObjs == InitObjs /\ [][NextObjs]_vars

(***************************************************************************)
(* Sequences of move, rotate and mirror on the Path A.  last holds the     *)
(* call, the Path before it, the call before that and the Path before      *)
(* that one.                                                               *)
(***************************************************************************)
NoMove ==
    [op |-> "none", pre |-> EmptyPath, arg |-> <<>>, status |-> "ok",
     prev |-> [op |-> "none", arg |-> <<>>], pre2 |-> EmptyPath, n |-> 0]

Did(op, arg) ==
    [op |-> op, pre |-> A, arg |-> arg, status |-> "ok",
     prev |-> [op |-> last.op, arg |-> last.arg], pre2 |-> last.pre, n |-> last.n + 1]

MovedPaths ==
    { PathInit(ArgArray(<<Pt(0, 0), Pt(2, 0)>>)).path,
      PathInit(ArgArray(<<Pt(0, 0), Pt(1, 0), Pt(1, -1)>>)).path,
      ArcPath }
MoveBy == {Pt(1, 2), Pt(-3, 0)}
RotateBy == {0, 90, -90, 180, 360, -360}
MirrorAcross == { <<Pt(0, 1), Pt(0, 0)>>, <<Pt(0, 0), Pt(1, 0)>>, <<Pt(1, 0), Pt(1, 2)>> }

\* A.move(destination=d).
MoveOp ==
    /\ last.n < MaxMoves
    /\ \E d \in MoveBy : A' = PathMove(A, d) /\ last' = Did("move", d)
    /\ UNCHANGED <<route, p, call, res, invoked, objs>>

\* A.rotate(angle).
RotateOp ==
    /\ last.n < MaxMoves
    /\ \E angle \in RotateBy : A' = PathRotate(A, angle) /\ last' = Did("rotate", angle)
    /\ UNCHANGED <<route, p, call, res, invoked, objs>>

\* A.mirror(p1, p2).
MirrorOp ==
    /\ last.n < MaxMoves
    /\ \E l \in MirrorAcross : A' = PathMirror(A, l[1], l[2]) /\ last' = Did("mirror", l)
    /\ UNCHANGED <<route, p, call, res, invoked, objs>>

InitMoves ==
    /\ A \in MovedPaths
    /\ route = [ctor |-> "none", appends |-> 0, arrays |-> TRUE, match |-> TRUE]
    /\ last = NoMove
    /\ p = EmptyPath
    /\ call = NoCall
    /\ res = NoResult
    /\ invoked = NotInvoked
    /\ objs = NoObjs

NextMoves == MoveOp \/ RotateOp \/ MirrorOp

\* Rigid transforms of one Path.
SpecMoves == InitMoves /\ [][NextMoves]_vars

(***************************************************************************)
(* Specifications.                                                         *)
(***************************************************************************)
InitPath ==
    /\ A = EmptyPath
    /\ route = [ctor |-> "none", appends |-> 0, arrays |-> TRUE, match |-> TRUE]
    /\ last = NoOp
    /\ p = EmptyPath
    /\ call = NoCall
    /\ res = NoResult
    /\ invoked = NotInvoked
    /\ objs = NoObjs

NextPath ==
    \/ \E arg \in InitArgs : Construct(arg)
    \/ \E arg \in AppendArgs : AppendOp(arg)

\* Path objects built by Path(...) and grown by append.
SpecPath == InitPath /\ [][NextPath]_vars

InitExtrude ==
    /\ A = EmptyPath
    /\ route = [ctor |-> "none", appends |-> 0, arrays |-> TRUE, match |-> TRUE]
    /\ last = NoOp
    /\ p \in SrcPaths
    /\ call = NoCall
    /\ res = NoResult
    /\ invoked = NotInvoked
    /\ objs = NoObjs

NextExtrude ==
    \/ Extrude
    \/ ExtrudeTransition

\* Extrusions of a path along cross-sections and transitions.
SpecExtrude == InitExtrude /\ [][NextExtrude]_vars

\* Calls of along_path.
SpecAlong == InitPath /\ [][AlongPath]_vars

\* Calls of smooth.
SpecSmooth == InitPath /\ [][Smooth]_vars

(***************************************************************************)
(* straight.  A length is a whole number of user units; the sampled points *)
(* are kept in LinUnit-ths of a user unit, so that every sample of         *)
(* linspace is a lattice point.                                            *)
(***************************************************************************)
RECURSIVE Product(_)
Product(n) == IF n <= 1 THEN 1 ELSE n * Product(n - 1)

\* The common denominator of the sample steps 1/(npoints - 1).
LinUnit == Product(MaxNpoints - 1)

\* np.linspace(start, stop, num): num evenly spaced samples, both ends included.
linspace(start, stop, num) ==
    [k \in 1..num |->
        IF num = 1 THEN start ELSE start + ((stop - start) * (k - 1)) \div (num - 1)]

\* A faulty validation, which also rejects a zero length.
InvalidLengthOrZero(length) == length <= 0

\* straight, line 1465: if length < 0.
InvalidLength(length) == length < 0

\* straight, lines 1455-1473.
straight(length, npoints) ==
    IF InvalidLength(length) THEN Outcome("ValueError", <<>>)
    ELSE LET x == linspace(0, length * LinUnit, npoints)
             points == [k \in 1..npoints |-> Pt(x[k], 0)]
             r == PathAppend(EmptyPath, ArgArray(points))
         IN  IF r.status = "ok" THEN r ELSE Outcome(r.status, <<>>)

\* One call of straight(length, npoints).
Straight ==
    /\ invoked.fn = "none"
    /\ \E length \in (0 - MaxLength)..MaxLength, npoints \in 0..MaxNpoints :
           invoked' = [fn |-> "straight", length |-> length, npoints |-> npoints,
                       out |-> straight(length, npoints)]
    /\ UNCHANGED <<A, route, last, p, call, res, objs>>

SpecStraight == InitPath /\ [][Straight]_vars

(***************************************************************************)
(* components.taper.  Widths and lengths are whole nanometres.  The PDK     *)
(* registry and the grid snap are not part of path.py or taper.py.         *)
(***************************************************************************)
\* taper, line 15: width1: float = 0.5.
Width1Default == 500

\* gf.snap.snap_to_grid2x on a 1 nm grid: the nearest multiple of 2 nm, a tie
\* going to the even multiple as Python's round does.
snap_to_grid2x(w) ==
    LET q == w \div 2
    IN  IF w % 2 = 0 THEN w ELSE IF q % 2 = 0 THEN 2 * q ELSE 2 * (q + 1)

\* The cross-section specifications a taper is asked for: a strip of one
\* section, and a rib whose second section is a slab of fixed width.
TaperSection(name, width, layer) == [name |-> name, width |-> width, layer |-> layer]
TaperCrossSections ==
    { [sections |-> <<TaperSection("_default", <<Width1Default>>, "WG")>>,
       bbox_layers |-> <<>>],
      [sections |-> <<TaperSection("_default", <<Width1Default>>, "WG"),
                      TaperSection("slab", <<6000>>, "SLAB90")>>,
       bbox_layers |-> <<"DEVREC">>] }

\* gf.get_cross_section(cross_section, width=width): the registry's
\* cross-section with the width setting given to its first section.  The
\* registry either validates the setting (strict) and rejects None, or
\* stores it as it is.
get_cross_section(cross_section, width, strict) ==
    IF IsNone(width) /\ strict THEN [status |-> "ValidationError"]
    ELSE [status |-> "ok",
          sections |-> [cross_section.sections EXCEPT ![1].width = width],
          bbox_layers |-> cross_section.bbox_layers,
          width |-> width,
          layer |-> cross_section.sections[1].layer]

TaperPort(name, center, width, orientation, layer) ==
    [name |-> name, center |-> center, width |-> width,
     orientation |-> orientation, layer |-> layer]

TaperPolygon(layer, w1, w2, length) == [layer |-> layer, w1 |-> w1, w2 |-> w2, length |-> length]

Abs(v) == IF v < 0 THEN 0 - v ELSE v
Truthy(opt) == ~IsNone(opt) /\ Val(opt) # 0

\* taper, lines 12-101.  port is None or a Port, of which only the width is read.
taper(length, width1, width2, port, with_two_ports, cross_section, with_bbox, strict) ==
    LET x1 == get_cross_section(cross_section, width1, strict)
        snapped == IF Truthy(width2) THEN <<snap_to_grid2x(Val(width2))>> ELSE width2
        x2 == IF Truthy(width2) THEN get_cross_section(cross_section, snapped, strict) ELSE x1
    IN  IF x1.status # "ok" THEN [status |-> x1.status]
        ELSE IF IsNone(x1.width) \/ IsNone(x2.width)
        THEN [status |-> "TypeError"]              \* max([width1, width2]) on None
        ELSE
        LET w2a == Val(x2.width)
            width_max == IF Val(x1.width) >= w2a THEN Val(x1.width) ELSE w2a
            \* lines 56-57: the port's width is taken only when x1.width is None
            w1 == IF ~IsNone(port) /\ IsNone(x1.width) THEN Val(port).width ELSE Val(x1.width)
            x == get_cross_section(cross_section, <<width_max>>, strict)
            w2 == IF w2a # 0 THEN w2a ELSE w1      \* width2 or width1
            s0_width == Val(x.sections[1].width)
            main == TaperPolygon(x.layer, w1, w2, length)
            others == [k \in 1..(Len(x.sections) - 1) |->
                          LET section == x.sections[k + 1]
                              delta_width == Abs(Val(section.width) - s0_width)
                          IN  TaperPolygon(section.layer, w1 + delta_width,
                                           w2 + delta_width, length)]
            west == TaperPort("o1", Pt(0, 0), w1, 180, x.layer)
            east == TaperPort("o2", Pt(length, 0), w2, 0, x.layer)
        IN  [status |-> "ok",
             polygons |-> IF length # 0 THEN <<main>> \o others ELSE <<>>,
             bbox |-> IF with_bbox THEN x.bbox_layers ELSE <<>>,
             ports |-> IF with_two_ports THEN <<west, east>> ELSE <<west>>,
             info |-> [length |-> length, width1 |-> w1, width2 |-> w2]]

TaperWidths1 == {<<>>, <<300>>, <<Width1Default>>}
TaperWidths2 == {<<>>, <<0>>, <<501>>, <<800>>}
TaperPorts == {<<>>} \cup {<<[width |-> w]>> : w \in {300, Width1Default, 800}}
TaperLengths == {0, 10000}

\* One call of taper.
Taper ==
    /\ invoked.fn = "none"
    /\ \E length \in TaperLengths, width1 \in TaperWidths1, width2 \in TaperWidths2,
          port \in TaperPorts, with_two_ports \in BOOLEAN,
          cross_section \in TaperCrossSections, with_bbox \in BOOLEAN, strict \in BOOLEAN :
           invoked' = [fn |-> "taper", length |-> length, width1 |-> width1,
                       width2 |-> width2, port |-> port,
                       with_two_ports |-> with_two_ports,
                       out |-> taper(length, width1, width2, port, with_two_ports,
                                     cross_section, with_bbox, strict)]
    /\ UNCHANGED <<A, route, last, p, call, res, objs>>

SpecTaper == InitPath /\ [][Taper]_vars

(***************************************************************************)
(* components.cutback_bend.  A symbol sequence is a sequence of one-letter  *)
(* strings; each function returns the sequence it hands to                 *)
(* component_sequence and the n_bends it writes into info.                 *)
(***************************************************************************)
MaxRows == 5
MaxCols == 5

\* Python's str * n.
RECURSIVE Times(_, _)
Times(str, n) == IF n <= 0 THEN <<>> ELSE str \o Times(str, n - 1)

\* Python's s[:-k] for k > 0.
DropLast(s, k) == IF Len(s) <= k THEN <<>> ELSE SubSeq(s, 1, Len(s) - k)

\* cutback_bend, lines 65-76.
RECURSIVE CutbackBendColumns(_, _, _)
CutbackBendColumns(i, rows, cols) ==
    IF i >= cols THEN <<>>
    ELSE Times(<<"A", "S", "B", "S">>, rows)
         \o (IF i % 2 = 0 THEN <<"A", "S", "A", "S">> ELSE <<"B", "S", "B", "S">>)
         \o CutbackBendColumns(i + 1, rows, cols)

cutback_bend(rows, cols) ==
    [sequence |-> DropLast(CutbackBendColumns(0, rows, cols), 4),
     n_bends |-> rows * cols * 2 + cols * 2 - 2]

\* cutback_bend90, lines 120-132.
RECURSIVE CutbackBend90Columns(_, _, _)
CutbackBend90Columns(i, rows, cols) ==
    IF i >= cols THEN <<>>
    ELSE (IF i % 2 = 0
          THEN Times(<<"A", "-", "A", "-", "B", "-", "B", "-">>, rows) \o <<"|">>
          ELSE Times(<<"B", "-", "B", "-", "A", "-", "A", "-">>, rows) \o <<"|">>)
         \o CutbackBend90Columns(i + 1, rows, cols)

cutback_bend90(rows, cols) ==
    [sequence |-> DropLast(CutbackBend90Columns(0, rows, cols), 1),
     n_bends |-> rows * cols * 4]

\* staircase, lines 168-175.
staircase(rows) ==
    [sequence |-> Times(<<"-", "A", "|", "B">>, rows) \o <<"-">>,
     n_bends |-> 2 * rows]

\* cutback_bend180, lines 223-234.
RECURSIVE CutbackBend180Columns(_, _, _)
CutbackBend180Columns(i, rows, cols) ==
    IF i >= cols THEN <<>>
    ELSE (IF i % 2 = 0
          THEN Times(<<"D", "-", "C", "-">>, rows) \o <<"|">>
          ELSE Times(<<"C", "-", "D", "-">>, rows) \o <<"|">>)
         \o CutbackBend180Columns(i + 1, rows, cols)

cutback_bend180(rows, cols) ==
    [sequence |-> DropLast(CutbackBend180Columns(0, rows, cols), 1),
     n_bends |-> rows * cols * 2 + cols * 2 - 2]

\* One call of each function.
CutbackBend ==
    /\ invoked.fn = "none"
    /\ \E rows \in 0..MaxRows, cols \in 0..MaxCols :
           invoked' = [fn |-> "cutback_bend", rows |-> rows, cols |-> cols,
                       out |-> cutback_bend(rows, cols)]
    /\ UNCHANGED <<A, route, last, p, call, res, objs>>

CutbackBend90 ==
    /\ invoked.fn = "none"
    /\ \E rows \in 0..MaxRows, cols \in 0..MaxCols :
           invoked' = [fn |-> "cutback_bend90", rows |-> rows, cols |-> cols,
                       out |-> cutback_bend90(rows, cols)]
    /\ UNCHANGED <<A, route, last, p, call, res, objs>>

Staircase ==
    /\ invoked.fn = "none"
    /\ \E rows \in 0..MaxRows :
           invoked' = [fn |-> "staircase", rows |-> rows, cols |-> 1,
                       out |-> staircase(rows)]
    /\ UNCHANGED <<A, route, last, p, call, res, objs>>

CutbackBend180 ==
    /\ invoked.fn = "none"
    /\ \E rows \in 0..MaxRows, cols \in 0..MaxCols :
           invoked' = [fn |-> "cutback_bend180", rows |-> rows, cols |-> cols,
                       out |-> cutback_bend180(rows, cols)]
    /\ UNCHANGED <<A, route, last, p, call, res, objs>>

NextCutback == CutbackBend \/ CutbackBend90 \/ Staircase \/ CutbackBend180
SpecCutback == InitPath /\ [][NextCutback]_vars

(***************************************************************************)
(* along_path, statement by statement, for a spacing of either sign.       *)
(* Lengths are doubled as in along_path above.  pc is the statement the    *)
(* call is at: "for" (line 708), "while" (line 716) or "return" (line      *)
(* 725).  n is the number of instances placed, MaxPlaced standing for      *)
(* MaxPlaced or more, and turn the parity of the number of passes through  *)
(* the while body.  next_component is only ever compared with              *)
(* cum_dist + segment_length, which is at least 0, and with stop, which is *)
(* above AlongFloor / 2 for every input; a next_component at or below      *)
(* AlongFloor / 2 is held as AlongFloor / 2.                               *)
(***************************************************************************)
MaxPlaced == 22
AlongFloor == 0 - 2 * (MaxPadding + MaxSpacing + 1)

Spacings == ((0 - MaxSpacing)..MaxSpacing) \ {0}

\* along_path, lines 689-696.
AlongEnter ==
    /\ invoked.fn = "none"
    /\ \E P \in AlongPaths, spacing \in Spacings, padding \in 0..MaxPadding :
        LET length == PathLength(P)
            number == AlongNumber(length, spacing, padding)
            next2 == length - (number - 1) * spacing
        IN  invoked' = [fn |-> "along_path loop", pc |-> "for", p |-> P,
                        spacing |-> spacing, padding |-> padding,
                        i |-> 1, cum |-> 0, next2 |-> next2,
                        stop2 |-> 2 * length - next2, n |-> 0, turn |-> 0]
    /\ UNCHANGED <<A, route, last, p, call, res, objs>>

\* along_path, line 708: the next segment, or the end of the loop.
AlongFor ==
    /\ invoked.fn = "along_path loop"
    /\ invoked.pc = "for"
    /\ invoked' = [invoked EXCEPT
                     !.pc = IF invoked.i >= Len(invoked.p.points) THEN "return" ELSE "while"]
    /\ UNCHANGED <<A, route, last, p, call, res, objs>>

\* along_path, lines 716-722: one test of the while condition, followed by
\* the body, or by line 722 and the next pass of the for loop.
AlongWhile ==
    /\ invoked.fn = "along_path loop"
    /\ invoked.pc = "while"
    /\ LET P == invoked.p
           i == invoked.i
           segment_length == SegmentLength(P.points[i], P.points[i + 1])
           next2 == invoked.next2 + 2 * invoked.spacing
       IN  invoked' =
             IF /\ invoked.next2 <= 2 * (invoked.cum + segment_length)
                /\ invoked.next2 <= invoked.stop2
             THEN [invoked EXCEPT
                     !.n = IF @ < MaxPlaced THEN @ + 1 ELSE @,
                     !.turn = 1 - @,
                     !.next2 = IF next2 < AlongFloor THEN AlongFloor ELSE next2]
             ELSE [invoked EXCEPT
                     !.cum = @ + segment_length, !.i = @ + 1, !.pc = "for"]
    /\ UNCHANGED <<A, route, last, p, call, res, objs>>

NextAlongLoop == AlongEnter \/ AlongFor \/ AlongWhile

\* A call of along_path runs on: each statement is followed by the next.
SpecAlongLoop == InitPath /\ [][NextAlongLoop]_vars /\ WF_vars(NextAlongLoop)

(***************************************************************************)
(* arc.  Angles are whole degrees, multiples of 45, and                    *)
(* 1 / PDK.bend_points_distance is a power of two, so that every quotient  *)
(* below is exact in doubles.  The sampled points are irrational; the      *)
(* returned Path is held by the number of its points and its two angles.   *)
(***************************************************************************)
MaxEighths == 8

\* Python's int(a / b) for b > 0: the quotient truncated towards zero.
IntDiv(a, b) == IF a >= 0 THEN a \div b ELSE 0 - ((0 - a) \div b)

\* int(360 / angle), angle # 0.
IntTurns(angle) == IF angle > 0 THEN IntDiv(360, angle) ELSE 0 - IntDiv(360, 0 - angle)

\* arc, lines 1295-1314, with per_unit = 1 / PDK.bend_points_distance and the
\* default start_angle of -90.
arc(radius, angle, npoints, per_unit) ==
    LET asked == IF IsNone(npoints) THEN 0 ELSE Val(npoints)
        dflt == Abs(IntDiv(angle * radius * per_unit, 720))
        first == IF asked # 0 THEN asked ELSE dflt
        n == IF first >= IntTurns(angle) + 1 THEN first ELSE IntTurns(angle) + 1
    IN  IF angle = 0
        THEN [status |-> "ZeroDivisionError", npoints |-> 0, start_angle |-> 0, end_angle |-> 0]
        ELSE IF n < 0
        THEN [status |-> "ValueError", npoints |-> 0, start_angle |-> 0, end_angle |-> 0]
        ELSE [status |-> "ok", npoints |-> n, start_angle |-> 0, end_angle |-> angle]

ArcAngles == {45 * k : k \in (0 - MaxEighths)..MaxEighths}
ArcNpoints == {<<>>} \cup {Some(n) : n \in (0 - 1)..MaxNpoints}
PerUnit == {1, 64}

\* One call of arc(radius, angle, npoints).
Arc ==
    /\ invoked.fn = "none"
    /\ \E radius \in 1..MaxRadius, angle \in ArcAngles, npoints \in ArcNpoints,
          per_unit \in PerUnit :
           invoked' = [fn |-> "arc", radius |-> radius, angle |-> angle,
                       npoints |-> npoints, per_unit |-> per_unit,
                       out |-> arc(radius, angle, npoints, per_unit)]
    /\ UNCHANGED <<A, route, last, p, call, res, objs>>

SpecArc == InitPath /\ [][Arc]_vars

Init == InitPath \/ InitExtrude \/ InitObjs \/ InitMoves
Next == NextPath \/ NextExtrude \/ AlongPath \/ Smooth \/ Straight \/ Taper \/ NextObjs \/ NextMoves
        \/ NextCutback \/ NextAlongLoop \/ Arc
Spec == Init /\ [][Next]_vars

(***************************************************************************)
(* Properties of Path.append and hash_geometry (SpecPath).                 *)
(***************************************************************************)
\* The start angle append takes for an argument: the Path's own, or the
\* heading of an array's first segment.
ArgStartAngle(arg) ==
    IF arg.tag = "path" THEN arg.start_angle ELSE Heading(arg.points[1], arg.points[2])

LastRotation == (last.pre.end_angle - ArgStartAngle(last.arg)) % 360

\* C1: an append of a Path or of an N x 2 array keeps A's previous points as a
\* prefix, adds exactly len(other) - 1 points, and places them so that the
\* appended segment (other, rotated) starts at A's former last point; a call
\* that raises leaves A as it was.
ThmC1_AppendKeepsPrefix ==
    (last.op = "append" /\ last.arg.tag \in {"path", "array"}) =>
        LET pre == last.pre.points
            n == Len(pre)
            o == last.arg.points
        IN  IF last.status = "ok"
            THEN /\ Len(A.points) = n + Len(o) - 1
                 /\ SubSeq(A.points, 1, n) = pre
                 /\ \A k \in 2..Len(o) :
                        A.points[n + k - 1] =
                            VAdd(pre[n], RotatePt(VSub(o[k], o[1]), LastRotation))
            ELSE A = last.pre

\* C1's case: a three-point argument appended, turned, to a path of two or
\* more points.
WitC1_TurnedAppend ==
    /\ last.op = "append"
    /\ last.status = "ok"
    /\ last.arg.tag \in {"path", "array"}
    /\ Len(last.arg.points) = 3
    /\ Len(last.pre.points) >= 2
    /\ LastRotation # 0

\* C2: when every argument's own angles are the headings of its first and last
\* segment, end_angle is, modulo 360, the heading of the path's final segment.
ThmC2_EndAngleIsFinalHeading ==
    (route.match /\ Len(A.points) >= 2) =>
        LET n == Len(A.points)
        IN  /\ A.points[n - 1] # A.points[n]
            /\ A.end_angle % 360 = Heading(A.points[n - 1], A.points[n]) % 360

\* C2's case: a second append that turned its argument and changed the heading.
WitC2_TwoAppendsTurned ==
    /\ route.match
    /\ route.appends >= 2
    /\ last.op = "append"
    /\ last.status = "ok"
    /\ Len(last.arg.points) >= 3
    /\ LastRotation # 0
    /\ A.end_angle # last.pre.end_angle

\* C3: a Path built by Path() and appends of point arrays hashes like the Path
\* built directly from the same points, Path(points).
ClaimC3_HashRouteIndependent ==
    (/\ route.ctor \in {"none", "list"}
     /\ route.appends >= 1
     /\ route.arrays
     /\ route.match
     /\ Len(A.points) >= 2) =>
        hash_geometry(A) = hash_geometry(PathInit(ArgArray(A.points)).path)

(***************************************************************************)
(* Properties of extrude and extrude_transition (SpecExtrude).             *)
(***************************************************************************)
\* extrude(p, cross_section=x) with a CrossSection x and a simplify that is
\* None or a number.
PlainCall ==
    /\ call.fn = "extrude"
    /\ call.cross_section.kind = "CrossSection"
    /\ IsNone(call.layer)
    /\ IsNone(call.width)

CallSections == call.cross_section.sections
Skipped == SeqRange(res.warnings)
PortsOf(i, side) == {k \in 1..Len(res.ports) : res.ports[k].sec = i /\ res.ports[k].side = side}
PolygonsOf(i) == {k \in 1..Len(res.polygons) : res.polygons[k].sec = i}
PortsNamed(name) == {k \in 1..Len(res.ports) : res.ports[k].name = name}

\* extrude, lines 796-846: the Path a section is extruded along: p, clipped by
\* the section's insets, then offset by its offset function.
SectionPath(P, section) ==
    LET clip == InsetClip(P, P.points, section.insets)
        base == IF clip.status = "ok" THEN PathInit(ArgArray(clip.points)).path ELSE P
    IN  IF ~IsNone(section.offset_function)
        THEN PathOffsetCallable(base, Val(section.offset_function))
        ELSE base

\* C4: extrude leaves the Path it is given as it was, whether it returns or
\* raises.
ThmC4_ExtrudeLeavesPath == call.fn = "extrude" => p = call.p

\* C4's case: a returned extrusion with a section that offsets its path by an
\* offset function, and a via laid along an offset path.
WitC4_OffsetFunctionAndVia ==
    /\ PlainCall
    /\ res.status = "ok"
    /\ \E i \in 1..Len(CallSections) :
            ~IsNone(CallSections[i].offset_function) /\ PortsOf(i, "start") # {}
    /\ Len(res.vias) > 0
    /\ res.vias[1].path # call.p

\* C5: in a returned extrusion, each section that was not skipped has a start
\* port iff port_names[0] is not None and an end port iff port_names[1] is not
\* None; the port is at the section path's first (last) point and faces
\* outward: (start_angle + 180) mod 360 and end_angle mod 360.
ThmC5_PortsAtEndsFacingOut ==
    (PlainCall /\ res.status = "ok") =>
        \A i \in 1..Len(CallSections) :
            i \notin Skipped =>
                LET section == CallSections[i]
                    sp == SectionPath(call.p, section)
                    first == PortsOf(i, "start")
                    final == PortsOf(i, "end")
                IN  /\ (section.port_names[1] # None) <=> (first # {})
                    /\ (section.port_names[2] # None) <=> (final # {})
                    /\ Cardinality(first) <= 1
                    /\ Cardinality(final) <= 1
                    /\ \A k \in first :
                        /\ res.ports[k].name = section.port_names[1]
                        /\ res.ports[k].center = sp.points[1]
                        /\ res.ports[k].orientation = (sp.start_angle + 180) % 360
                    /\ \A k \in final :
                        /\ res.ports[k].name = section.port_names[2]
                        /\ res.ports[k].center = Last(sp.points)
                        /\ res.ports[k].orientation = sp.end_angle % 360

\* C5's case: a path ending upwards, extruded with a section that has both
\* ports and a section that has a start port only.
WitC5_BothPortsAndOnePort ==
    /\ PlainCall
    /\ res.status = "ok"
    /\ call.p.end_angle = 90
    /\ \E k \in 1..Len(res.ports) : res.ports[k].side = "start" /\ res.ports[k].orientation = 180
    /\ \E k \in 1..Len(res.ports) : res.ports[k].side = "end" /\ res.ports[k].orientation = 90
    /\ \E i \in 1..Len(CallSections) :
            /\ i \notin Skipped
            /\ CallSections[i].port_names[2] = None
            /\ PortsOf(i, "start") # {}
            /\ PortsOf(i, "end") = {}

\* C6: for a cross-section of one constant-width section, and for the one made
\* of layer and width, the ports o1 and o2 of the result have the section's
\* width.
ThmC6_PortWidthIsSectionWidth ==
    (call.fn = "extrude" /\ res.status = "ok") =>
        /\ (/\ PlainCall
            /\ Len(CallSections) = 1
            /\ IsNone(CallSections[1].width_function)) =>
                \A k \in PortsNamed("o1") \cup PortsNamed("o2") :
                    res.ports[k].width = CallSections[1].width
        /\ (call.cross_section.kind = None /\ ~IsNone(call.layer) /\ ~IsNone(call.width)) =>
                /\ PortsNamed("o1") # {}
                /\ PortsNamed("o2") # {}
                /\ \A k \in PortsNamed("o1") \cup PortsNamed("o2") :
                        res.ports[k].width = Val(call.width)

\* C6's case: extrude(p, layer=(1, 0), width=4) returned with its port o1.
WitC6_LayerWidthCall ==
    /\ call.fn = "extrude"
    /\ res.status = "ok"
    /\ call.cross_section.kind = None
    /\ call.width = Some(4)
    /\ \E k \in PortsNamed("o1") : res.ports[k].width = 4

\* C7: extrude with a boolean simplify raises the simplify error, whatever the
\* cross-section (a CrossSection of any number of sections, a Transition).
ClaimC7_BoolSimplifyRaises ==
    (/\ call.fn = "extrude"
     /\ IsBool(call.simplify)
     /\ call.cross_section.kind # None
     /\ IsNone(call.layer)
     /\ IsNone(call.width)) =>
        res.status = "ValueError: simplify"

\* Whether a section's insets leave nothing of the path: the inset start
\* xmin + insets[0] is not left of the inset stop xmax - insets[1].
InsetsEliminate(P, section) ==
    /\ ~IsNone(section.insets)
    /\ Val(section.insets) # <<0, 0>>
    /\ xmin(P) + Val(section.insets)[1] >= xmax(P) - Val(section.insets)[2]

\* Whether a section's inset range lies outside the path's x-extent.
InsetsOutside(P, section) ==
    /\ ~IsNone(section.insets)
    /\ Val(section.insets) # <<0, 0>>
    /\ \/ xmin(P) + Val(section.insets)[1] > xmax(P)
       \/ xmax(P) - Val(section.insets)[2] < xmin(P)

\* C8: a section whose insets eliminate the path is skipped with a warning: it
\* gets no polygon and no port.  (Stated of the calls in which no other section
\* has insets and simplify is no boolean.)
ClaimC8_EliminatingInsetsSkip ==
    (PlainCall /\ ~IsBool(call.simplify)) =>
        \A i \in 1..Len(CallSections) :
            (/\ InsetsEliminate(call.p, CallSections[i])
             /\ \A j \in 1..Len(CallSections) : j # i => IsNone(CallSections[j].insets)) =>
                /\ i \in Skipped
                /\ PolygonsOf(i) = {}
                /\ PortsOf(i, "start") \cup PortsOf(i, "end") = {}

\* C9: sections whose inset range is outside the path never abort the
\* extrusion: it returns, having skipped them, with the ports of every other
\* section in section order.  (Stated of the calls in which the other sections
\* have no insets and simplify is no boolean.)
ClaimC9_SkipNeverAborts ==
    (/\ PlainCall
     /\ ~IsBool(call.simplify)
     /\ \E i \in 1..Len(CallSections) : InsetsOutside(call.p, CallSections[i])
     /\ \A i \in 1..Len(CallSections) :
            InsetsOutside(call.p, CallSections[i]) \/ IsNone(CallSections[i].insets)) =>
        /\ res.status = "ok"
        /\ \A i \in 1..Len(CallSections) :
            IF InsetsOutside(call.p, CallSections[i])
            THEN i \in Skipped /\ PolygonsOf(i) = {} /\ PortsOf(i, "start") = {}
            ELSE /\ CallSections[i].port_names[1] # None => PortsOf(i, "start") # {}
                 /\ (~CallSections[i].hidden /\ PathLength(call.p) > 0) => PolygonsOf(i) # {}
        /\ \A k, m \in 1..Len(res.ports) : k < m => res.ports[k].sec <= res.ports[m].sec

\* The key of a section: its name, or its layer when it has no name.
KeyOf(section) ==
    IF section.name # None THEN <<"name", section.name, 0, 0>>
    ELSE <<"layer", "", section.layer[1], section.layer[2]>>
KeysOf(sections) == {KeyOf(sections[i]) : i \in 1..Len(sections)}
SharedKeys == KeysOf(call.cross_section.sections1) \cap KeysOf(call.cross_section.sections2)
UniqueKeys(sections) == Cardinality(KeysOf(sections)) = Len(sections)

\* The sections of cross_section1 an extrude_transition extruded.
Processed == {res.secs[k].sec : k \in 1..Len(res.secs)}
SharedSections1 ==
    {i \in 1..Len(call.cross_section.sections1) :
        KeyOf(call.cross_section.sections1[i]) \in SharedKeys}

TransitionReturned ==
    /\ call.fn \in {"extrude", "extrude_transition"}
    /\ call.cross_section.kind = "Transition"
    /\ res.status = "ok"

\* The section of cross_section2 paired with section i of cross_section1.
Paired(i) ==
    LET s2 == call.cross_section.sections2
    IN  s2[CHOOSE j \in 1..Len(s2) : KeyOf(s2[j]) = KeyOf(call.cross_section.sections1[i])]

\* C11: in an extruded transition, for every matched pair and every width law,
\* the start port has section1's width and refers to cross_section1, and the
\* end port has section2's width and refers to cross_section2.
ThmC11_TransitionPortWidths ==
    TransitionReturned =>
        \A i \in SharedSections1 :
            LET section1 == call.cross_section.sections1[i]
            IN  /\ (section1.port_names[1] # None) <=> (PortsOf(i, "start") # {})
                /\ (section1.port_names[2] # None) <=> (PortsOf(i, "end") # {})
                /\ \A k \in PortsOf(i, "start") :
                        /\ res.ports[k].width = section1.width
                        /\ res.ports[k].cross_section = "x1"
                /\ \A k \in PortsOf(i, "end") :
                        /\ res.ports[k].width = Paired(i).width
                        /\ res.ports[k].cross_section = "x2"

\* C11's case: a transition from width 2 to width 4 under a custom callable
\* whose value at t = 0 is not width1, extruded with both ports.
WitC11_CallableLaw ==
    /\ TransitionReturned
    /\ call.cross_section.width_type = "callable_half"
    /\ \E k \in PortsNamed("o1") : res.ports[k].width = 2 /\ res.ports[k].cross_section = "x1"
    /\ \E k \in PortsNamed("o2") : res.ports[k].width = 4 /\ res.ports[k].cross_section = "x2"
    /\ \E k \in 1..Len(res.polygons) : res.polygons[k].width = <<3, 4>>

\* C12: in an extruded transition along a path of non-zero length, a matched
\* pair on two different layers has its polygon on the pseudo-layer pairing
\* (layer1, layer2), and a pair on one layer has its polygon on that layer.
ClaimC12_PseudoLayerPolygon ==
    (TransitionReturned /\ PathLength(call.p) > 0) =>
        \A i \in SharedSections1 :
            LET section1 == call.cross_section.sections1[i]
                section2 == Paired(i)
            IN  /\ Cardinality(PolygonsOf(i)) = 1
                /\ \A k \in PolygonsOf(i) :
                        res.polygons[k].layer =
                            IF section1.layer # section2.layer
                            THEN <<section1.layer, section2.layer>>
                            ELSE section1.layer

(***************************************************************************)
(* Properties of along_path (SpecAlong).                                   *)
(***************************************************************************)
AlongCall == invoked.fn = "along_path"
AlongLength == PathLength(invoked.p)

\* floor((L - 2p) / s) + 1 instances, and none when L < 2p.
ExpectedNumber ==
    IF AlongLength < 2 * invoked.padding THEN 0
    ELSE (AlongLength - 2 * invoked.padding) \div invoked.spacing + 1

\* The path of one segment that is as long as the path of the call.
OneSegment == PathRec(<<Pt(0, 0), Pt(AlongLength, 0)>>, 0, 0)

RECURSIVE PointAtArc2(_, _, _, _)
\* Twice the point of P at arc length arc2 / 2, looked for from segment i on,
\* which starts at arc length cum.
PointAtArc2(P, i, cum, arc2) ==
    LET a == P.points[i]
        b == P.points[i + 1]
        len == SegmentLength(a, b)
        dir == IF len = 0 THEN <<0, 0>>
               ELSE <<(b[1] - a[1]) \div len, (b[2] - a[2]) \div len>>
    IN  IF arc2 <= 2 * (cum + len) \/ i + 1 = Len(P.points)
        THEN VAdd(VScale(2, a), VScale(arc2 - 2 * cum, dir))
        ELSE PointAtArc2(P, i + 1, cum + len, arc2)

\* C14: the n instances sit on the path at the arc lengths first + k * spacing
\* (k = 0..n-1) with first = (L - (n - 1) * spacing) / 2: consecutive instances
\* are exactly spacing apart, the first and the last are equally far from the
\* two ends, at least padding, and no position is used twice.
ClaimC14_AlongPositions ==
    AlongCall =>
        LET placed == invoked.placed
            n == Len(placed)
            first2 == AlongLength - (n - 1) * invoked.spacing
        IN  /\ \A k \in 1..n :
                /\ placed[k].arc2 = first2 + 2 * (k - 1) * invoked.spacing
                /\ placed[k].at2 = PointAtArc2(invoked.p, 1, 0, placed[k].arc2)
            /\ \A k \in 1..(n - 1) : placed[k + 1].arc2 - placed[k].arc2 = 2 * invoked.spacing
            /\ n >= 1 =>
                /\ first2 >= 2 * invoked.padding
                /\ placed[1].arc2 = first2
                /\ placed[n].arc2 = 2 * AlongLength - first2

(***************************************************************************)
(* Properties of smooth (SpecSmooth).                                      *)
(***************************************************************************)
SmoothCall == invoked.fn = "smooth"

\* Some waypoint segment runs exactly against the one before it.  Collapsing
\* the colinear waypoints merges segments of one direction and leaves every
\* other turn between the same two directions.
TurnsBack ==
    \E i \in 1..(Len(invoked.steps) - 1) :
        LET a == invoked.steps[i]
            b == invoked.steps[i + 1]
        IN  a[1] * b[2] = a[2] * b[1] /\ a[1] * b[1] + a[2] * b[2] < 0

\* C15: smooth raises the double-back error, with no Path and no bend made,
\* whenever some turn of the waypoints is 180 degrees, and only then.
ThmC15_DoubleBack ==
    SmoothCall =>
        /\ TurnsBack <=> (invoked.out.status = "ValueError: double-back")
        /\ TurnsBack => (invoked.out.bends = 0 /\ invoked.out.path = <<>>)

\* C15's case: waypoints that go on straight and then exactly backwards, as
\* (0, 0), (0, 1), (0, 2), (0, 0).
WitC15_BackAfterColinear ==
    /\ SmoothCall
    /\ invoked.points = <<Pt(0, 0), Pt(0, 1), Pt(0, 2), Pt(0, 0)>>
    /\ invoked.out.status = "ValueError: double-back"

RECURSIVE MergedLengths(_, _)
\* The lengths of the segments between the waypoints at which the path turns:
\* consecutive steps of one direction make one segment.
MergedLengths(steps, i) ==
    IF i > Len(steps) THEN <<>>
    ELSE LET rest == MergedLengths(steps, i + 1)
             len == SegmentLength(Pt(0, 0), steps[i])
         IN  IF i < Len(steps)
                /\ UnitVector(Pt(0, 0), steps[i]) = UnitVector(Pt(0, 0), steps[i + 1])
             THEN <<len + Head(rest)>> \o Tail(rest)
             ELSE <<len>> \o rest

\* Some segment is shorter than the tangent lengths of the bends at its ends:
\* radius for a 90-degree arc, nothing at the first and the last waypoint.
TooTight ==
    LET ds == MergedLengths(invoked.steps, 1)
        m == Len(ds)
    IN  \E j \in 1..m :
            (IF j > 1 THEN invoked.radius ELSE 0) + (IF j < m THEN invoked.radius ELSE 0)
                > ds[j]

\* C16: for waypoints that do not turn back, smooth raises the spacing error
\* exactly when some segment is strictly shorter than the tangent lengths at
\* its two ends, and returns a Path when every segment is at least as long.
ClaimC16_SpacingError ==
    (SmoothCall /\ ~TurnsBack) =>
        /\ TooTight <=> (invoked.out.status = "ValueError: not enough distance")
        /\ ~TooTight => (invoked.out.status = "ok" /\ invoked.out.path # <<>>)

StraightCall == invoked.fn = "straight"

\* The returned Path starts at the origin with heading 0 and has the length asked for.
StraightOfLength ==
    /\ invoked.out.status = "ok"
    /\ invoked.out.path.points[1] = Pt(0, 0)
    /\ invoked.out.path.start_angle = 0
    /\ invoked.out.path.end_angle = 0
    /\ Len(invoked.out.path.points) = invoked.npoints
    /\ PathLength(invoked.out.path) = invoked.length * LinUnit

\* C17 as stated: straight fails with the length-validation error for every
\* length < 0, and for every length >= 0 returns a Path from the origin with
\* heading 0 whose length() is the length asked for, whatever npoints is.
ClaimC17_StraightAnyNpoints ==
    StraightCall =>
        IF invoked.length < 0
        THEN invoked.out = Outcome("ValueError", <<>>)
        ELSE StraightOfLength

\* C17, amended: the same for every npoints >= 2; with fewer than two points
\* and a length >= 0 the call fails with an IndexError and returns no Path.
ThmC17_StraightLength ==
    StraightCall =>
        IF invoked.length < 0
        THEN invoked.out = Outcome("ValueError", <<>>)
        ELSE IF invoked.npoints >= 2
        THEN StraightOfLength
        ELSE invoked.out = Outcome("IndexError", <<>>)

\* A straight of length zero and one sampled in three uneven-looking steps.
WitC17_ZeroLengthStraight ==
    /\ StraightCall
    /\ invoked.length = 0
    /\ invoked.npoints = 2
    /\ invoked.out.status = "ok"
    /\ invoked.out.path.points = <<Pt(0, 0), Pt(0, 0)>>

(***************************************************************************)
(* Properties of components.taper (SpecTaper).                             *)
(***************************************************************************)
TaperCall == invoked.fn = "taper"

\* C18: when a Port is passed as `port` and width1 is left at its default, the
\* returned taper's west port width and info['width1'] are the port's width.
ClaimC18_TaperFromPort ==
    (TaperCall /\ ~IsNone(invoked.port) /\ invoked.width1 = <<Width1Default>>) =>
        /\ invoked.out.status = "ok"
        /\ invoked.out.ports[1].width = Val(invoked.port).width
        /\ invoked.out.info.width1 = Val(invoked.port).width

(***************************************************************************)
(* Properties of the polygons, ports and vias of extrude (SpecExtrude).    *)
(***************************************************************************)
\* C19: for every section extrude processes, the section's polygon is emitted,
\* on the section's layer, iff the section is not hidden and its path has a
\* length above 1e-3; a port is emitted at each end whose port name is not
\* None in every case, hidden sections and paths of no length included.
ThmC19_PolygonIffPortsAlways ==
    (PlainCall /\ res.status = "ok") =>
        \A k \in 1..Len(res.secs) :
            LET i == res.secs[k].sec
                section == CallSections[i]
                p_sec == res.secs[k].path
            IN  /\ (PolygonsOf(i) # {}) <=> (~section.hidden /\ PathLength(p_sec) > 0)
                /\ \A m \in PolygonsOf(i) : res.polygons[m].layer = get_layer(section.layer)
                /\ (PortsOf(i, "start") # {}) <=> (section.port_names[1] # None)
                /\ (PortsOf(i, "end") # {}) <=> (section.port_names[2] # None)
                /\ (IsNone(section.insets) /\ IsNone(section.offset_function)) => p_sec = call.p

\* C19's case: a path of no length extruded along a visible section and a
\* hidden one; both get their ports and neither a polygon.
WitC19_PortsWithoutPolygon ==
    /\ PlainCall
    /\ res.status = "ok"
    /\ PathLength(call.p) = 0
    /\ res.polygons = <<>>
    /\ \E i, j \in 1..Len(CallSections) :
        /\ ~CallSections[i].hidden /\ PortsOf(i, "start") # {} /\ PortsOf(i, "end") # {}
        /\ CallSections[j].hidden /\ PortsOf(j, "start") # {}

\* The vias of the call's cross-section.
CallVias == call.cross_section.components_along_path

\* The source path offset sideways by d.
OffsetOfSource(d) ==
    PathInit(ArgArray(CenterpointOffsetCurve(call.p.points, d, call.p.start_angle,
                                            call.p.end_angle))).path

\* C20: each via with a nonzero lateral offset is laid along the source path p
\* offset by that amount, whatever the sections of the cross-section are:
\* their insets and offset functions do not move it, and a skipped last
\* section does not make the call fail.
ClaimC20_ViaAlongOffsetSource ==
    (/\ PlainCall
     /\ ~IsBool(call.simplify)
     /\ \E k \in 1..Len(CallVias) : CallVias[k].offset # 0) =>
        /\ res.status \in {"ok", "IndexError"}
        /\ res.status = "ok" =>
            /\ Len(res.vias) = Len(CallVias)
            /\ \A k \in 1..Len(res.vias) :
                LET via == CallVias[res.vias[k].via]
                IN  via.offset # 0 => res.vias[k].path = OffsetOfSource(via.offset)

(***************************************************************************)
(* Properties of Path objects and their copies (SpecObjs).                 *)
(***************************************************************************)
\* What a caller sees of a Path object.
View(o) == [points |-> o.points, start_angle |-> o.start_angle, end_angle |-> o.end_angle,
            info |-> o.info]

Mutators == {"move", "rotate", "mirror", "offset", "append", "info"}

Turn(P) == (P.end_angle - P.start_angle) % 360
SameAngles(P, Q) ==
    /\ P.start_angle % 360 = Q.start_angle % 360
    /\ P.end_angle % 360 = Q.end_angle % 360

\* C22: move changes neither angle; rotate, by any angle, keeps the turn
\* (end_angle - start_angle) mod 360 and mirror negates it; rotate(a) after
\* rotate(-a), and a second mirror across the same line, restore both angles
\* modulo 360.
ThmC22_TurnUnderTransforms ==
    /\ last.op = "move" =>
            A.start_angle = last.pre.start_angle /\ A.end_angle = last.pre.end_angle
    /\ last.op = "rotate" => Turn(A) = Turn(last.pre)
    /\ last.op = "mirror" => Turn(A) = (0 - Turn(last.pre)) % 360
    /\ (last.op = "rotate" /\ last.prev.op = "rotate" /\ last.arg = 0 - last.prev.arg) =>
            SameAngles(A, last.pre2)
    /\ (last.op = "mirror" /\ last.prev.op = "mirror" /\ last.arg = last.prev.arg) =>
            SameAngles(A, last.pre2)

\* C22's case: a path that turns by 270 degrees, rotated by 90 and then by
\* -90, with both angles back where they were.
WitC22_RotatedBack ==
    /\ last.op = "rotate"
    /\ last.arg = -90
    /\ last.prev.op = "rotate"
    /\ last.prev.arg = 90
    /\ Turn(A) = 270
    /\ A.start_angle # last.pre.start_angle
    /\ SameAngles(A, last.pre2)

(***************************************************************************)
(* Properties of insets and port layers in extrude (SpecExtrude).          *)
(***************************************************************************)
\* The points of the source path whose x lies strictly between the two bounds.
StrictlyBetween(lo, hi) == SelectSeq(call.p.points, LAMBDA q : q[1] > lo /\ q[1] < hi)

\* C23: the path of a section with nonzero insets is the new start point, then
\* every point of the source path whose x lies strictly between
\* xmin + insets[0] and xmax - insets[1], in order and none dropped, then the
\* new end point.
ClaimC23_InsetKeepsInterior ==
    (PlainCall /\ res.status = "ok") =>
        \A k \in 1..Len(res.secs) :
            LET section == CallSections[res.secs[k].sec]
                pts == res.secs[k].path.points
                lo == xmin(call.p) + Val(section.insets)[1]
                hi == xmax(call.p) - Val(section.insets)[2]
            IN  (/\ ~IsNone(section.insets)
                 /\ Val(section.insets) # <<0, 0>>
                 /\ IsNone(section.offset_function)) =>
                    /\ Len(pts) >= 2
                    /\ pts[1][1] = lo
                    /\ Last(pts)[1] = hi
                    /\ SubSeq(pts, 2, Len(pts) - 1) = StrictlyBetween(lo, hi)

\* C24: in extrude, every port of a section is on that section's layer,
\* whether the section is hidden or not.
ClaimC24_PortsOnSectionLayer ==
    (PlainCall /\ res.status = "ok") =>
        \A k \in 1..Len(res.ports) :
            res.ports[k].layer = get_layer(CallSections[res.ports[k].sec].layer)

\* C25: whenever transition(X1, X2) returns a Transition, extrude_transition
\* along that Transition does not raise the no-common-layers error.
ClaimC25_TransitionAgrees ==
    (call.fn = "extrude_transition" /\ call.made.status = "ok") =>
        /\ call.made.t = call.cross_section
        /\ res.status # "ValueError: no common layers"

\* C26: for cutback_bend, cutback_bend90, cutback_bend180 and staircase with
\* rows >= 1 and cols >= 1, info["n_bends"] is the number of bend symbols
\* (A and B, or D and C) in the sequence handed to component_sequence.
BendSymbols == {"A", "B", "C", "D"}
CountBends(s) == Cardinality({i \in 1..Len(s) : s[i] \in BendSymbols})
CutbackFns == {"cutback_bend", "cutback_bend90", "staircase", "cutback_bend180"}
ClaimC26_NBendsCountsBends ==
    (invoked.fn \in CutbackFns /\ invoked.rows >= 1 /\ invoked.cols >= 1) =>
        invoked.out.n_bends = CountBends(invoked.out.sequence)

\* C27: an append of a list that raises the invalid-input ValueError on one
\* of its elements leaves the path's points and end_angle as they were before
\* the call.
ClaimC27_AppendAllOrNothing ==
    (last.op = "append" /\ last.arg.tag = "list" /\ last.status = "ValueError") =>
        /\ A.points = last.pre.points
        /\ A.end_angle = last.pre.end_angle

\* C28: along_path terminates, for every path of finitely many segments,
\* every padding and every nonzero spacing of either sign.
ClaimC28_AlongPathTerminates ==
    <>(invoked.fn = "along_path loop" /\ invoked.pc = "return")

\* C29: under each built-in width law (sine, linear, parabolic, elliptical)
\* the interpolated width is width1 at t = 0 and width2 at t = 1, so that in
\* an extruded transition the polygon's start and end faces are as wide as
\* the start and end ports.
ThmC29_FaceWidthsArePortWidths ==
    (TransitionReturned /\ call.cross_section.width_type \in BuiltinWidthTypes) =>
        \A i \in SharedSections1 :
            LET width1 == call.cross_section.sections1[i].width
                width2 == Paired(i).width
            IN  \A k \in PolygonsOf(i) :
                    /\ res.polygons[k].width = <<width1, width2>>
                    /\ \A s \in PortsOf(i, "start") :
                            res.ports[s].width = res.polygons[k].width[1]
                    /\ \A e \in PortsOf(i, "end") :
                            res.ports[e].width = res.polygons[k].width[2]

\* C29's case: an elliptical transition from width 2 to width 4 extruded with
\* its polygon and both ports.
WitC29_EllipticalFaces ==
    /\ TransitionReturned
    /\ call.cross_section.width_type = "elliptical"
    /\ \E i \in SharedSections1 :
            /\ \E k \in PolygonsOf(i) : res.polygons[k].width = <<2, 4>>
            /\ \E s \in PortsOf(i, "start") : res.ports[s].width = 2
            /\ \E e \in PortsOf(i, "end") : res.ports[e].width = 4

\* C30: arc does not fail for any finite angle, and for every nonzero angle
\* of either sign and every npoints asked for it returns at least
\* int(360 / |angle|) + 1 points.
ClaimC30_ArcSamples ==
    invoked.fn = "arc" =>
        /\ invoked.out.status = "ok"
        /\ invoked.angle # 0 =>
               invoked.out.npoints >= IntDiv(360, Abs(invoked.angle)) + 1

=============================================================================
